---- MODULE Spec2Model ----
(***************************************************************************)
(* testdirs: materializing a tree description into a directory tree        *)
(* (createFileTree / createFileTreeSync, testdir / testdirSync) and        *)
(* scanning a directory back into a tree description (fromFileSystem /     *)
(* fromFileSystemSync, processDirectory / processDirectorySync).           *)
(*                                                                         *)
(* Path strings are records [abs, segs]: segs is the list of the segments  *)
(* between separators ("." and ".." included), abs tells whether the       *)
(* string starts with a separator.  The relative string with no segment    *)
(* stands for "." (node's normalize("") is ".").                           *)
(* The filesystem is a function from physical paths (sequences of names    *)
(* from the root, no symbolic link on the way) to nodes; the node:fs calls *)
(* the program makes are operators on it that resolve a path string the    *)
(* way the kernel does, following symbolic links component by component.   *)
(* Text is a sequence of one-character strings, file data a sequence of    *)
(* bytes.                                                                  *)
(*                                                                         *)
(* Environment: POSIX, a process without privileges (permission bits are   *)
(* enforced), umask 022, working directory /w, os.tmpdir() = /s, which is  *)
(* a symbolic link to the directory /t/p.  A directory listing returns the *)
(* names in the order of NameOrder; randomUUID() gives a name no earlier   *)
(* call has given.  isSync tells which variant of each function the caller *)
(* uses (createFileTreeSync, testdirSync, fromFileSystemSync).             *)
(***************************************************************************)
EXTENDS Integers, Sequences, FiniteSets, TLC

\* ------------------------------------------------------------------------
\* Bounds
\* ------------------------------------------------------------------------
MaxRuns == 2
MaxScans == 1
LoopLimit == 3
MaxDepth == 4
MaxRemoves == 2

\* ------------------------------------------------------------------------
\* node:path (posix)
\* ------------------------------------------------------------------------
Abs(segs) == [abs |-> TRUE, segs |-> segs]
Rel(segs) == [abs |-> FALSE, segs |-> segs]

\* process.cwd()
Cwd == Abs(<<"w">>)

RECURSIVE NormAcc(_, _, _)
NormAcc(segs, abs, acc) ==
  IF segs = <<>> THEN acc
  ELSE LET s == Head(segs)
           r == Tail(segs)
       IN IF s = "." THEN NormAcc(r, abs, acc)
          ELSE IF s = ".."
               THEN IF acc # <<>> /\ acc[Len(acc)] # ".."
                    THEN NormAcc(r, abs, SubSeq(acc, 1, Len(acc) - 1))
                    ELSE IF abs THEN NormAcc(r, abs, acc)
                         ELSE NormAcc(r, abs, Append(acc, ".."))
               ELSE NormAcc(r, abs, Append(acc, s))

normalize(p) == [abs |-> p.abs, segs |-> NormAcc(p.segs, p.abs, <<>>)]

join(a, b) == normalize([abs |-> a.abs, segs |-> a.segs \o b.segs])

resolve(a, b) ==
  IF b.abs THEN normalize(b)
  ELSE IF a.abs THEN normalize(Abs(a.segs \o b.segs))
       ELSE normalize(Abs(Cwd.segs \o a.segs \o b.segs))

resolve1(a) == resolve(Cwd, a)

dirname(p) ==
  IF p.segs = <<>> THEN p
  ELSE [abs |-> p.abs, segs |-> SubSeq(p.segs, 1, Len(p.segs) - 1)]

basename(p) == IF p.segs = <<>> THEN "" ELSE p.segs[Len(p.segs)]

RECURSIVE CommonLen(_, _)
CommonLen(a, b) ==
  IF a = <<>> \/ b = <<>> THEN 0
  ELSE IF Head(a) = Head(b) THEN 1 + CommonLen(Tail(a), Tail(b)) ELSE 0

relative(from, to) ==
  LET f == resolve1(from).segs
      t == resolve1(to).segs
      k == CommonLen(f, t)
  IN Rel([i \in 1..(Len(f) - k) |-> ".."] \o SubSeq(t, k + 1, Len(t)))

\* ------------------------------------------------------------------------
\* Text and bytes: String(value), utf-8 encoding and decoding
\* ------------------------------------------------------------------------
CharTable ==
  << <<"0", 48>>, <<"1", 49>>, <<"2", 50>>, <<"3", 51>>, <<"4", 52>>,
     <<"5", 53>>, <<"6", 54>>, <<"7", 55>>, <<"8", 56>>, <<"9", 57>>,
     <<"-", 45>>, <<"a", 97>>, <<"d", 100>>, <<"e", 101>>, <<"f", 102>>,
     <<"i", 105>>, <<"l", 108>>, <<"n", 110>>, <<"r", 114>>, <<"s", 115>>,
     <<"t", 116>>, <<"u", 117>>, <<"x", 120>>, <<"y", 121>>, <<"NUL", 0>> >>

\* U+FFFD, what a decoder puts for a byte that is no utf-8, and its encoding
Replacement == "U+FFFD"
ReplacementBytes == <<239, 191, 189>>

CharCode(c) ==
  IF c = Replacement THEN ReplacementBytes
  ELSE <<CharTable[CHOOSE j \in 1..Len(CharTable) : CharTable[j][1] = c][2]>>

CodeChar(b) ==
  IF \E j \in 1..Len(CharTable) : CharTable[j][2] = b
  THEN CharTable[CHOOSE j \in 1..Len(CharTable) : CharTable[j][2] = b][1]
  ELSE Replacement

RECURSIVE Utf8Encode(_)
Utf8Encode(text) ==
  IF text = <<>> THEN <<>> ELSE CharCode(Head(text)) \o Utf8Encode(Tail(text))

RECURSIVE Utf8Decode(_)
Utf8Decode(bytes) ==
  IF bytes = <<>> THEN <<>>
  ELSE IF Len(bytes) >= 3 /\ SubSeq(bytes, 1, 3) = ReplacementBytes
       THEN <<Replacement>> \o Utf8Decode(SubSeq(bytes, 4, Len(bytes)))
       ELSE <<CodeChar(Head(bytes))>> \o Utf8Decode(Tail(bytes))

\* the characters of a string
Chars(string) == [i \in 1..Len(string) |-> SubSeq(string, i, i)]

Digit(d) == CharTable[d + 1][1]

RECURSIVE NatToText(_)
NatToText(n) ==
  IF n < 10 THEN <<Digit(n)>> ELSE Append(NatToText(n \div 10), Digit(n % 10))

NumberToString(n) == IF n < 0 THEN <<"-">> \o NatToText(0 - n) ELSE NatToText(n)

\* ------------------------------------------------------------------------
\* The filesystem the node:fs calls act on (POSIX, unprivileged process)
\* ------------------------------------------------------------------------
Oct(a, b, c) == a * 64 + b * 8 + c

HasR(m) == (m \div 256) % 2 = 1
HasW(m) == (m \div 128) % 2 = 1
HasX(m) == (m \div 64) % 2 = 1

\* the process umask 022 clears the group and other write bits at creation
ApplyUmask(m) ==
  m - (IF (m \div 16) % 2 = 1 THEN 16 ELSE 0) - (IF (m \div 2) % 2 = 1 THEN 2 ELSE 0)

NoMode == -1
NoPath == Rel(<<>>)

DirNode(mode) ==
  [k |-> "dir", mode |-> ApplyUmask(mode), data |-> <<>>, ino |-> 0, target |-> NoPath]
FileNode(mode, data, ino) ==
  [k |-> "file", mode |-> ApplyUmask(mode), data |-> data, ino |-> ino, target |-> NoPath]
SymlinkNode(target) ==
  [k |-> "symlink", mode |-> Oct(7, 7, 7), data |-> <<>>, ino |-> 0, target |-> target]

Parent(p) == IF p = <<>> THEN p ELSE SubSeq(p, 1, Len(p) - 1)

IsPrefix(a, b) == Len(a) <= Len(b) /\ SubSeq(b, 1, Len(a)) = a

WalkErr(code) == [st |-> "err", p |-> <<>>, err |-> code]

\* Path resolution from the existing directory cur: "found" with the
\* physical path, "missing" when only the last component does not exist
\* (p is then the path a creation would make), or an error.
RECURSIVE Walk(_, _, _, _, _)
Walk(fs, cur, segs, followLast, fuel) ==
  IF segs = <<>> THEN [st |-> "found", p |-> cur, err |-> ""]
  ELSE LET s == Head(segs)
           r == Tail(segs)
           c == Append(cur, s)
       IN IF ~HasX(fs[cur].mode) THEN WalkErr("EACCES")
          ELSE IF s = "." THEN Walk(fs, cur, r, followLast, fuel)
          ELSE IF s = ".." THEN Walk(fs, Parent(cur), r, followLast, fuel)
          ELSE IF c \notin DOMAIN fs
               THEN IF r = <<>> THEN [st |-> "missing", p |-> c, err |-> ""]
                    ELSE WalkErr("ENOENT")
          ELSE IF fs[c].k = "dir" THEN Walk(fs, c, r, followLast, fuel)
          ELSE IF fs[c].k = "file"
               THEN IF r = <<>> THEN [st |-> "found", p |-> c, err |-> ""]
                    ELSE WalkErr("ENOTDIR")
          ELSE IF r = <<>> /\ ~followLast THEN [st |-> "found", p |-> c, err |-> ""]
          ELSE IF fuel = 0 THEN WalkErr("ELOOP")
          ELSE Walk(fs, IF fs[c].target.abs THEN <<>> ELSE cur,
                    fs[c].target.segs \o r, followLast, fuel - 1)

Phys(fs, p, followLast) ==
  Walk(fs, IF p.abs THEN <<>> ELSE Cwd.segs, p.segs, followLast, LoopLimit)

Ok(fs) == [fs |-> fs, err |-> ""]
Fail(fs, code) == [fs |-> fs, err |-> code]

CanCreateIn(fs, d) == HasW(fs[d].mode) /\ HasX(fs[d].mode)

NextIno(fs) ==
  LET used == {fs[q].ino : q \in DOMAIN fs}
  IN 1 + CHOOSE m \in used : \A n \in used : n <= m

\* mkdir(2)
Mkdir1(fs, p, mode) ==
  LET w == Phys(fs, p, FALSE)
  IN IF w.st = "err" THEN Fail(fs, w.err)
     ELSE IF w.st = "found" THEN Fail(fs, "EEXIST")
     ELSE IF ~CanCreateIn(fs, Parent(w.p)) THEN Fail(fs, "EACCES")
     ELSE Ok(fs @@ (w.p :> DirNode(mode)))

\* stat(2) and Stats.isDirectory()
IsDir(fs, p) ==
  LET w == Phys(fs, p, TRUE)
  IN w.st = "found" /\ fs[w.p].k = "dir"

\* fs.mkdir(p, { recursive: true, mode }): every directory it makes gets mode
RECURSIVE MkdirP(_, _, _)

\* a recursive mkdir that reports a directory that is already there
MkdirP_ExistsIsError(fs, p, mode) ==
  IF Phys(fs, p, TRUE).st = "found" THEN Fail(fs, "EEXIST")
  ELSE LET up == IF p.segs = <<>> THEN Ok(fs) ELSE MkdirP(fs, dirname(p), mode)
       IN IF up.err \notin {"", "EEXIST"} THEN up ELSE Mkdir1(up.fs, p, mode)

MkdirP(fs, p, mode) ==
  LET r == Mkdir1(fs, p, mode)
  IN IF r.err = "" THEN r
     ELSE IF r.err = "ENOENT"
          THEN IF p.segs = <<>> THEN r
               ELSE LET up == MkdirP(fs, dirname(p), mode)
                    IN IF up.err # "" THEN up ELSE Mkdir1(up.fs, p, mode)
     ELSE IF r.err = "EEXIST"
          THEN LET w == Phys(fs, p, TRUE)
               IN IF w.st = "found" THEN (IF fs[w.p].k = "dir" THEN Ok(fs) ELSE Fail(fs, "EEXIST"))
                  ELSE IF w.st = "missing" THEN Fail(fs, "ENOENT")
                  ELSE Fail(fs, w.err)
     ELSE r

\* fs.writeFile(p, data, { mode }): open(O_WRONLY | O_CREAT | O_TRUNC, mode)
WriteFile(fs, p, bytes, mode) ==
  LET w == Phys(fs, p, TRUE)
  IN IF w.st = "err" THEN Fail(fs, w.err)
     ELSE IF w.st = "found"
          THEN IF fs[w.p].k = "dir" THEN Fail(fs, "EISDIR")
               ELSE IF ~HasW(fs[w.p].mode) THEN Fail(fs, "EACCES")
               ELSE Ok([q \in DOMAIN fs |->
                         IF fs[q].k = "file" /\ fs[q].ino = fs[w.p].ino
                         THEN [fs[q] EXCEPT !.data = bytes] ELSE fs[q]])
     ELSE IF ~CanCreateIn(fs, Parent(w.p)) THEN Fail(fs, "EACCES")
     ELSE Ok(fs @@ (w.p :> FileNode(IF mode = NoMode THEN Oct(6, 6, 6) ELSE mode,
                                     bytes, NextIno(fs))))

\* fs.symlink(target, p, type): the type is ignored on POSIX
Symlink(fs, target, p) ==
  LET w == Phys(fs, p, FALSE)
  IN IF w.st = "err" THEN Fail(fs, w.err)
     ELSE IF w.st = "found" THEN Fail(fs, "EEXIST")
     ELSE IF ~CanCreateIn(fs, Parent(w.p)) THEN Fail(fs, "EACCES")
     ELSE Ok(fs @@ (w.p :> SymlinkNode(target)))

\* fs.link(existing, p)
Link(fs, existing, p) ==
  LET e == Phys(fs, existing, FALSE)
      w == Phys(fs, p, FALSE)
  IN IF e.st = "err" THEN Fail(fs, e.err)
     ELSE IF e.st = "missing" THEN Fail(fs, "ENOENT")
     ELSE IF fs[e.p].k = "dir" THEN Fail(fs, "EPERM")
     ELSE IF w.st = "err" THEN Fail(fs, w.err)
     ELSE IF w.st = "found" THEN Fail(fs, "EEXIST")
     ELSE IF ~CanCreateIn(fs, Parent(w.p)) THEN Fail(fs, "EACCES")
     ELSE Ok(fs @@ (w.p :> fs[e.p]))

\* every name that occurs in the model, in the order a listing returns them
NameOrder == <<"0", "1", "a", "b", "content", "d", "e", "f", "g", "l", "m", "n", "o", "out", "p", "s", "t",
               "w", "nope", "testdirs-u1", "testdirs-u2", "testdirs-u3">>

\* fs.readdir(p, { withFileTypes: true })
Readdir(fs, p) ==
  LET w == Phys(fs, p, TRUE)
  IN IF w.st = "err" THEN [err |-> w.err, names |-> <<>>, dir |-> <<>>]
     ELSE IF w.st = "missing" THEN [err |-> "ENOENT", names |-> <<>>, dir |-> <<>>]
     ELSE IF fs[w.p].k # "dir" THEN [err |-> "ENOTDIR", names |-> <<>>, dir |-> <<>>]
     ELSE IF ~HasR(fs[w.p].mode) THEN [err |-> "EACCES", names |-> <<>>, dir |-> <<>>]
     ELSE [err |-> "",
           names |-> SelectSeq(NameOrder, LAMBDA n : Append(w.p, n) \in DOMAIN fs),
           dir |-> w.p]

\* fs.readFile(p): the bytes of the file
ReadFile(fs, p) ==
  LET w == Phys(fs, p, TRUE)
  IN IF w.st = "err" THEN [err |-> w.err, data |-> <<>>]
     ELSE IF w.st = "missing" THEN [err |-> "ENOENT", data |-> <<>>]
     ELSE IF fs[w.p].k = "dir" THEN [err |-> "EISDIR", data |-> <<>>]
     ELSE IF ~HasR(fs[w.p].mode) THEN [err |-> "EACCES", data |-> <<>>]
     ELSE [err |-> "", data |-> fs[w.p].data]

\* fs.readlink(p)
Readlink(fs, p) ==
  LET w == Phys(fs, p, FALSE)
  IN IF w.st = "err" THEN [err |-> w.err, target |-> NoPath]
     ELSE IF w.st = "missing" THEN [err |-> "ENOENT", target |-> NoPath]
     ELSE IF fs[w.p].k # "symlink" THEN [err |-> "EINVAL", target |-> NoPath]
     ELSE [err |-> "", target |-> fs[w.p].target]

\* unlink(2) and rmdir(2) of the node at the physical path q
Unlink(fs, q) ==
  IF ~CanCreateIn(fs, Parent(q)) THEN Fail(fs, "EACCES")
  ELSE Ok([x \in DOMAIN fs \ {q} |-> fs[x]])

\* the removal of the node at q and of everything below it: a directory
\* that is not empty is listed, its entries are removed in the order of the
\* listing, and the first failure ends the removal
RECURSIVE RmTree(_, _)
RECURSIVE RmEntries(_, _, _)
RmEntries(fs, q, names) ==
  IF names = <<>> THEN Ok(fs)
  ELSE LET r == RmTree(fs, Append(q, Head(names)))
       IN IF r.err # "" THEN r ELSE RmEntries(r.fs, q, Tail(names))

RmTree(fs, q) ==
  LET names == SelectSeq(NameOrder, LAMBDA n : Append(q, n) \in DOMAIN fs)
  IN IF fs[q].k # "dir" \/ names = <<>> THEN Unlink(fs, q)
     ELSE IF ~(HasR(fs[q].mode) /\ HasX(fs[q].mode)) THEN Fail(fs, "EACCES")
     ELSE LET emptied == RmEntries(fs, q, names)
          IN IF emptied.err # "" THEN emptied ELSE Unlink(emptied.fs, q)

\* fs.rm(p, { recursive: true, force: true }): a path that does not exist
\* is no error
Rm(fs, p) ==
  LET w == Phys(fs, p, FALSE)
  IN IF w.st = "missing" \/ (w.st = "err" /\ w.err = "ENOENT") THEN Ok(fs)
     ELSE IF w.st = "err" THEN Fail(fs, w.err)
     ELSE RmTree(fs, w.p)

\* ------------------------------------------------------------------------
\* Tree descriptions (DirectoryJSON) and the helpers that build their content
\* ------------------------------------------------------------------------
Str(text) == [t |-> "str", text |-> text]
Num(n) == [t |-> "num", num |-> n]
Bool(b) == [t |-> "bool", bool |-> b]
Null == [t |-> "null"]
Undefined == [t |-> "undef"]
Bytes(b) == [t |-> "bytes", bytes |-> b]
BigInt(n) == [t |-> "bigint", num |-> n]
\* Symbol(description): id tells one symbol from another of the same description
Sym(description, id) == [t |-> "symbol", description |-> description, id |-> id]
Arr(items) == [t |-> "array", items |-> items]
Func == [t |-> "function"]

FIXTURE_TYPE_LINK_SYMBOL == Sym("testdir-link", 0)
FIXTURE_TYPE_SYMLINK_SYMBOL == Sym("testdir-symlink", 0)
FIXTURE_ORIGINAL_PATH_SYMBOL == Sym("testdir-original-path", 0)
FIXTURE_METADATA_SYMBOL == Sym("testdir-metadata", 0)

\* the FIXTURE_ORIGINAL_PATH_SYMBOL property of a DirectoryJSON
NoProv == [has |-> FALSE, path |-> NoPath]
Prov(path) == [has |-> TRUE, path |-> path]

\* a DirectoryJSON: its string keys in enumeration order and its symbol key
Files(entries, prov) == [t |-> "dir", entries |-> entries, prov |-> prov]
Entry(name, content) == [name |-> name, content |-> content]
NoFiles == Files(<<>>, NoProv)

symlink(path) == [t |-> "symlink", path |-> normalize(path)]
link(path) == [t |-> "link", path |-> normalize(path)]
metadata(content, md) == [t |-> "meta", meta |-> md, content |-> content]
NoMeta == [mode |-> NoMode]

\* typeof value
TypeOf(value) ==
  CASE value.t = "str" -> "string"
    [] value.t = "num" -> "number"
    [] value.t = "bool" -> "boolean"
    [] value.t = "undef" -> "undefined"
    [] value.t = "bigint" -> "bigint"
    [] value.t = "symbol" -> "symbol"
    [] value.t = "function" -> "function"
    [] OTHER -> "object"

\* value[key] for a symbol key of an object: undefined when it has no such property
SymbolProperty(value, key) ==
  CASE value.t = "symlink" /\ key = FIXTURE_TYPE_SYMLINK_SYMBOL -> FIXTURE_TYPE_SYMLINK_SYMBOL
    [] value.t = "link" /\ key = FIXTURE_TYPE_LINK_SYMBOL -> FIXTURE_TYPE_LINK_SYMBOL
    [] value.t = "meta" /\ key = FIXTURE_METADATA_SYMBOL -> value.meta
    [] value.t = "dir" /\ key = FIXTURE_ORIGINAL_PATH_SYMBOL /\ value.prov.has -> value.prov.path
    [] OTHER -> Undefined

\* a test on the string key "path" instead of the symbol
isSymlink_ByPathKey(value) ==
  /\ TypeOf(value) = "object"
  /\ value # Null
  /\ \/ value.t \in {"symlink", "link"}
     \/ value.t = "dir" /\ \E i \in 1..Len(value.entries) : value.entries[i].name = Rel(<<"path">>)

isSymlink(value) ==
  /\ TypeOf(value) = "object"
  /\ value # Null
  /\ SymbolProperty(value, FIXTURE_TYPE_SYMLINK_SYMBOL) = FIXTURE_TYPE_SYMLINK_SYMBOL

isLink(value) ==
  /\ TypeOf(value) = "object"
  /\ value # Null
  /\ SymbolProperty(value, FIXTURE_TYPE_LINK_SYMBOL) = FIXTURE_TYPE_LINK_SYMBOL

hasMetadata(value) ==
  /\ TypeOf(value) = "object"
  /\ value # Null
  /\ SymbolProperty(value, FIXTURE_METADATA_SYMBOL) \notin {Null, Undefined}

\* a test that knows no byte sequences
isPrimitive_TypeofOnly(data) ==
  \/ TypeOf(data) \in {"string", "number", "boolean", "bigint", "symbol"}
  \/ data = Null
  \/ data = Undefined

isPrimitive(data) ==
  \/ TypeOf(data) = "string"
  \/ TypeOf(data) = "number"
  \/ TypeOf(data) = "boolean"
  \/ data = Null
  \/ data = Undefined
  \/ TypeOf(data) = "bigint"
  \/ TypeOf(data) = "symbol"
  \/ data.t = "bytes"

\* a coercion that takes null and undefined for the empty text
String_NullishEmpty(data) ==
  CASE data.t = "num" -> NumberToString(data.num)
    [] data.t = "bool" -> IF data.bool THEN <<"t", "r", "u", "e">>
                          ELSE <<"f", "a", "l", "s", "e">>
    [] OTHER -> <<>>

\* String(data) of the primitives that are no text
String(data) ==
  CASE data.t = "num" -> NumberToString(data.num)
    [] data.t = "bool" -> IF data.bool THEN <<"t", "r", "u", "e">>
                          ELSE <<"f", "a", "l", "s", "e">>
    [] data.t = "null" -> <<"n", "u", "l", "l">>
    [] data.t = "undef" -> <<"u", "n", "d", "e", "f", "i", "n", "e", "d">>
    [] data.t = "bigint" -> NumberToString(data.num)
    [] data.t = "symbol" -> Chars("Symbol(" \o data.description \o ")")

\* what writeFile puts on disk: a string is utf-8 encoded, bytes go as they are
WrittenBytes(data) ==
  CASE data.t = "bytes" -> data.bytes
    [] data.t = "str" -> Utf8Encode(data.text)
    [] OTHER -> Utf8Encode(String(data))

\* ------------------------------------------------------------------------
\* createFileTree / createFileTreeSync, one iteration of the for-in loop
\* at a time.  A frame is one activation of createFileTree: filePath, the
\* place of its files object in the description (the indices of the entries
\* that lead to it) and the index of the entry the loop is at.
\* ------------------------------------------------------------------------
Unwrap(c) == IF hasMetadata(c) THEN c.content ELSE c

\* what for (filename in files) and files[filename] find in an object: the
\* enumerable string keys (the indices of an array, "content" of a metadata
\* wrapper, none of a function), never a key that is a symbol
ForIn(data) ==
  CASE data.t = "dir" -> data
    [] data.t = "meta" -> Files(<<Entry(Rel(<<"content">>), data.content)>>, NoProv)
    [] data.t = "array" ->
         Files([i \in 1..Len(data.items) |->
                  Entry(Rel(<<Digit(i - 1)>>), data.items[i])], NoProv)
    [] OTHER -> NoFiles

RECURSIVE FilesAt(_, _)
FilesAt(files, at) ==
  IF at = <<>> THEN files
  ELSE FilesAt(ForIn(Unwrap(files.entries[Head(at)].content)), Tail(at))

\* data.path = ... : the marker object inside the description is assigned to
RECURSIVE SetPath(_, _, _)
SetPath(files, at, newPath) ==
  LET i == Head(at)
      c == files.entries[i].content
      inner == Unwrap(c)
      newInner == IF Len(at) = 1 THEN [inner EXCEPT !.path = newPath]
                  ELSE SetPath(inner, Tail(at), newPath)
      newC == IF hasMetadata(c) THEN [c EXCEPT !.content = newInner] ELSE newInner
  IN [files EXCEPT !.entries[i].content = newC]

Frame(filePath, at, idx) == [filePath |-> filePath, at |-> at, idx |-> idx]

\* the loop of a frame is over: createFileTree returns to its caller
RECURSIVE Unwind(_, _)
Unwind(desc, stack) ==
  IF stack = <<>> THEN stack
  ELSE LET top == stack[Len(stack)]
       IN IF top.idx > Len(FilesAt(desc, top.at).entries)
          THEN Unwind(desc, SubSeq(stack, 1, Len(stack) - 1))
          ELSE stack

\* fresh: nothing was at filename when the iteration began
\* type: the third argument of the fs.symlink call of the iteration, if any
NoLast ==
  [at |-> <<>>, filename |-> NoPath, content |-> Null, hasProv |-> FALSE, fresh |-> FALSE,
   type |-> ""]

\* isDirectory(path) / isDirectorySync(path): false when stat fails
isDirectory(fs, path) == IsDir(fs, path)

\* (await isDirectory(filename)) ? "junction" : "file"
LinkType(fs, filename) == IF isDirectory(fs, filename) THEN "junction" ELSE "file"

\* the symlink target createFileTree computes from the provenance
Rebase(filename, original, originalFileName) ==
  relative(dirname(filename), join(resolve1(normalize(original)), originalFileName))

\* a loop that catches the rejection and goes on with the next entry
Aborted_Swallowed(st) == FALSE

\* the throw of a rejected filesystem call ends every loop of the call chain
Aborted(st) == st.err # ""

\* a target made absolute against the working directory
SymlinkArgument_Resolved(newPath, isSync) == resolve1(newPath)

\* the target handed to fs.symlink: path.normalize(data.path), data.path when sync
SymlinkArgument(newPath, isSync) == IF isSync THEN newPath ELSE normalize(newPath)

\* createFileTree(filePath, files) run to its end: the state it returns or throws in
RECURSIVE RunToEnd(_, _)

\* a mkdir of the parent directory alone, without { recursive: true }
MakeParent_OneLevel(fs, filename) ==
  LET r == Mkdir1(fs, dirname(filename), Oct(7, 7, 7))
  IN IF r.err = "EEXIST" /\ IsDir(fs, dirname(filename)) THEN Ok(fs) ELSE r

\* fs.mkdir(path.dirname(filename), { recursive: true }) before a file is written
MakeParent(fs, filename) == MkdirP(fs, dirname(filename), Oct(7, 7, 7))

\* metadata?.mode ? { mode: metadata.mode } : {}
DirMode(md) == IF md.mode # NoMode /\ md.mode # 0 THEN md.mode ELSE Oct(7, 7, 7)

\* a recursive call that is not awaited: the loop goes on with the siblings
\* and the loop of the nested description runs when it is over
Descend_NotAwaited(next, frame) == <<frame>> \o next

\* await createFileTree(filename, data): the loop of the nested description
\* runs to its end before the calling loop takes its next entry
Descend(next, frame) == Append(next, frame)

CreateFileTreeStep(st, isSync) ==
  LET top == st.stack[Len(st.stack)]
      files == FilesAt(st.desc, top.at)
      e == files.entries[top.idx]
      originalFileName == e.name
      md == IF hasMetadata(e.content) THEN e.content.meta ELSE NoMeta
      data == Unwrap(e.content)
      filename == resolve(top.filePath, e.name)
      here == Append(top.at, top.idx)
      rest == SubSeq(st.stack, 1, Len(st.stack) - 1)
      next == Append(rest, [top EXCEPT !.idx = top.idx + 1])
      lst == [at |-> here, filename |-> filename, content |-> e.content,
              hasProv |-> files.prov.has,
              fresh |-> Phys(st.fs, filename, FALSE).st = "missing",
              type |-> IF ~isLink(data) /\ isSymlink(data) THEN LinkType(st.fs, filename)
                       ELSE ""]
      \* the loop goes on with stack unless the iteration has thrown
      After(r, desc, stk) ==
        LET res == [fs |-> r.fs, desc |-> desc, err |-> r.err, last |-> lst,
                    stack |-> st.stack]
        IN IF Aborted(res) THEN res ELSE [res EXCEPT !.stack = Unwind(desc, stk)]
      Leaf(r, desc) == After(r, desc, next)
  IN IF isLink(data)
     THEN Leaf(Link(st.fs, resolve(dirname(filename), data.path), filename), st.desc)
     ELSE IF isSymlink(data)
     THEN LET newPath == IF files.prov.has
                         THEN Rebase(filename, files.prov.path, originalFileName)
                         ELSE data.path
              desc == IF files.prov.has THEN SetPath(st.desc, here, newPath) ELSE st.desc
          IN Leaf(Symlink(st.fs, SymlinkArgument(newPath, isSync), filename), desc)
     ELSE IF isPrimitive(data)
     THEN LET made == MakeParent(st.fs, filename)
          IN IF made.err # "" THEN Leaf(made, st.desc)
             ELSE Leaf(WriteFile(made.fs, filename, WrittenBytes(data), md.mode), st.desc)
     ELSE LET made == MkdirP(st.fs, filename, DirMode(md))
          IN After(made, st.desc, Descend(next, Frame(filename, here, 1)))

RunToEnd(st, isSync) ==
  IF st.stack = <<>> \/ Aborted(st) THEN st
  ELSE RunToEnd(CreateFileTreeStep(st, isSync), isSync)

createFileTree(fs, filePath, files, isSync) ==
  RunToEnd([fs |-> fs, desc |-> files, err |-> "", last |-> NoLast,
            stack |-> Unwind(files, <<Frame(filePath, <<>>, 1)>>)], isSync)

\* ------------------------------------------------------------------------
\* processDirectory / processDirectorySync and fromFileSystem(Sync)
\* ------------------------------------------------------------------------
ScanFail(code) == [err |-> code, files |-> NoFiles]

RECURSIVE processDirectory(_, _, _, _)
RECURSIVE ProcessEntries(_, _, _, _, _, _, _)

\* a loop that leaves out the directories that turn out empty
ProcessEntries_NoEmptyDirs(fs, path, dir, names, options, isSync, acc) ==
  IF names = <<>> THEN [err |-> "", files |-> acc]
  ELSE LET filePath == Head(names)
           fullPath == [abs |-> path.abs, segs |-> Append(path.segs, filePath)]
           kind == fs[Append(dir, filePath)].k
           put(c) == Files(Append(acc.entries, Entry(Rel(<<filePath>>), c)), acc.prov)
       IN IF kind = "dir"
          THEN LET sub == processDirectory(fs, fullPath, options, isSync)
               IN IF sub.err # "" THEN ScanFail(sub.err)
                  ELSE ProcessEntries(fs, path, dir, Tail(names), options, isSync,
                         IF sub.files.entries = <<>> THEN acc ELSE put(sub.files))
          ELSE IF options.followLinks /\ kind = "symlink"
          THEN LET rl == Readlink(fs, fullPath)
               IN IF rl.err # "" THEN ScanFail(rl.err)
                  ELSE ProcessEntries(fs, path, dir, Tail(names), options, isSync,
                                      put(symlink(rl.target)))
          ELSE LET rf == ReadFile(fs, fullPath)
               IN IF rf.err # "" THEN ScanFail(rf.err)
                  ELSE ProcessEntries(fs, path, dir, Tail(names), options, isSync,
                         put(IF options.encoding = "utf-8" THEN Str(Utf8Decode(rf.data))
                             ELSE Bytes(rf.data)))

\* the for-of loop over filteredFiles; dir is where the listing was read
ProcessEntries(fs, path, dir, names, options, isSync, acc) ==
  IF names = <<>> THEN [err |-> "", files |-> acc]
  ELSE LET filePath == Head(names)
           fullPath == [abs |-> path.abs, segs |-> Append(path.segs, filePath)]
           kind == fs[Append(dir, filePath)].k
           put(c) == Files(Append(acc.entries, Entry(Rel(<<filePath>>), c)), acc.prov)
       IN IF kind = "dir"
          THEN LET sub == processDirectory(fs, fullPath, options, isSync)
               IN IF sub.err # "" THEN ScanFail(sub.err)
                  ELSE ProcessEntries(fs, path, dir, Tail(names), options, isSync,
                                      put(sub.files))
          ELSE IF options.followLinks /\ kind = "symlink"
          THEN LET rl == Readlink(fs, fullPath)
               IN IF rl.err # "" THEN ScanFail(rl.err)
                  ELSE ProcessEntries(fs, path, dir, Tail(names), options, isSync,
                                      put(symlink(rl.target)))
          ELSE LET rf == ReadFile(fs, fullPath)
               IN IF rf.err # "" THEN ScanFail(rf.err)
                  ELSE ProcessEntries(fs, path, dir, Tail(names), options, isSync,
                         put(IF options.encoding = "utf-8" THEN Str(Utf8Decode(rf.data))
                             ELSE Bytes(rf.data)))

\* a filter that lets every name through
Filtered_None(dirFiles, options) == dirFiles

\* dirFiles.filter((file) => !options.ignore.includes(file.name))
Filtered(dirFiles, options) == SelectSeq(dirFiles, LAMBDA n : n \notin options.ignore)

processDirectory(fs, path, options, isSync) ==
  LET listing == Readdir(fs, path)
      filteredFiles == Filtered(listing.names, options)
      files == Files(<<>>, Prov(IF isSync THEN normalize(path) ELSE resolve1(path)))
  IN IF listing.err # "" THEN ScanFail(listing.err)
     ELSE ProcessEntries(fs, path, listing.dir, filteredFiles, options, isSync, files)

\* { ...extras, ...files }: what was scanned replaces the caller's entry
Spread_ScannedWins(files, extras) ==
  LET HasName(es, n) == \E i \in 1..Len(es) : es[i].name = n
      added == SelectSeq(extras.entries, LAMBDA x : ~HasName(files.entries, x.name))
  IN Files(files.entries \o added, IF extras.prov.has THEN extras.prov ELSE files.prov)

\* { ...files, ...extras }: a key of extras keeps the place it has in files
Spread(files, extras) ==
  LET HasName(es, n) == \E i \in 1..Len(es) : es[i].name = n
      Of(es, n) == es[CHOOSE i \in 1..Len(es) : es[i].name = n].content
      kept == [i \in 1..Len(files.entries) |->
                 IF HasName(extras.entries, files.entries[i].name)
                 THEN Entry(files.entries[i].name, Of(extras.entries, files.entries[i].name))
                 ELSE files.entries[i]]
      added == SelectSeq(extras.entries, LAMBDA x : ~HasName(files.entries, x.name))
  IN Files(kept \o added, IF extras.prov.has THEN extras.prov ELSE files.prov)

\* a scan that spreads the extras whether or not the path is a directory
fromFileSystem_ExtrasAlways(fs, path, options, isSync) ==
  IF ~IsDir(fs, path) THEN [err |-> "", files |-> Spread(NoFiles, options.extras)]
  ELSE LET r == processDirectory(fs, path, options, isSync)
       IN IF r.err # "" THEN r
          ELSE [err |-> "", files |-> Spread(r.files, options.extras)]

\* if (!isDirectory(path)) return {}; else { ...processDirectory(path), ...extras }
fromFileSystem(fs, path, options, isSync) ==
  IF ~IsDir(fs, path) THEN [err |-> "", files |-> NoFiles]
  ELSE LET r == processDirectory(fs, path, options, isSync)
       IN IF r.err # "" THEN r
          ELSE [err |-> "", files |-> Spread(r.files, options.extras)]

\* ------------------------------------------------------------------------
\* The snapshot renderer.  Paths are the strings the code slices; the
\* box-drawing connectors are written "|-- " for U+251C U+2500 U+2500 SPACE,
\* "+-- " for U+2514 U+2500 U+2500 SPACE and "|   " for U+2502 and three spaces.
\* ------------------------------------------------------------------------
\* string.slice(start) and string.slice(start, end)
Slice(string, start, end) ==
  IF start >= end \/ start >= Len(string) THEN ""
  ELSE SubSeq(string, start + 1, IF end > Len(string) THEN Len(string) ELSE end)

\* string.lastIndexOf(char): -1 when the string has none
LastIndexOf(string, char) ==
  LET at == {i \in 1..Len(string) : SubSeq(string, i, i) = char}
  IN IF at = {} THEN -1 ELSE (CHOOSE i \in at : \A j \in at : j <= i) - 1

\* the pieces of a path string between its separators, the empty ones left out
RECURSIVE Pieces(_, _, _)
Pieces(string, i, piece) ==
  IF i > Len(string) THEN (IF piece = "" THEN <<>> ELSE <<piece>>)
  ELSE IF SubSeq(string, i, i) = "/"
       THEN (IF piece = "" THEN <<>> ELSE <<piece>>) \o Pieces(string, i + 1, "")
       ELSE Pieces(string, i + 1, piece \o SubSeq(string, i, i))

ParsePath(string) ==
  [abs |-> Len(string) > 0 /\ SubSeq(string, 1, 1) = "/", segs |-> Pieces(string, 1, "")]

RECURSIVE JoinText(_, _)
JoinText(strings, separator) ==
  IF strings = <<>> THEN ""
  ELSE IF Len(strings) = 1 THEN strings[1]
       ELSE strings[1] \o separator \o JoinText(Tail(strings), separator)

PathText(p) ==
  IF p.abs THEN "/" \o JoinText(p.segs, "/")
  ELSE IF p.segs = <<>> THEN "." ELSE JoinText(p.segs, "/")

EndsWithSeparator(string) == Len(string) > 0 /\ SubSeq(string, Len(string), Len(string)) = "/"

\* path.normalize of a string: a trailing separator is kept
normalizeText(string) ==
  LET n == PathText(normalize(ParsePath(string)))
  IN IF EndsWithSeparator(string) /\ ~EndsWithSeparator(n) THEN n \o "/" ELSE n

\* path.basename of a string: the last piece, trailing separators ignored
basenameText(string) ==
  LET pieces == Pieces(string, 1, "")
  IN IF pieces = <<>> THEN "" ELSE pieces[Len(pieces)]

\* path.replace(/[/\\]$/, "")
StripSeparator(string) ==
  IF EndsWithSeparator(string) THEN Slice(string, 0, Len(string) - 1) ELSE string

\* a.name.localeCompare(b.name) for the names of the model
LocaleOrder == <<"a", "b", "d", "e", "f", "g", "l", "m", "n", "nope", "o", "out", "p", "s",
                 "t", "testdirs-u1", "testdirs-u2", "testdirs-u3", "w">>

\* fs.readdir(path, { recursive: true, withFileTypes: true }): the Dirents of
\* the directories of the queue and of the directories found in them
RECURSIVE ReaddirRecursive(_, _, _)
ReaddirRecursive(fs, queue, result) ==
  IF queue = <<>> THEN [err |-> "", entries |-> result]
  ELSE LET path == Head(queue)
           listing == Readdir(fs, ParsePath(path))
           isDir(n) == fs[Append(listing.dir, n)].k = "dir"
           dirents == [i \in 1..Len(listing.names) |->
                         [parentPath |-> path, name |-> listing.names[i],
                          isDir |-> isDir(listing.names[i])]]
           found == SelectSeq(dirents, LAMBDA d : d.isDir)
           direntPaths == [i \in 1..Len(found) |->
                             PathText(join(ParsePath(path), Rel(<<found[i].name>>)))]
       IN IF listing.err # "" THEN [err |-> listing.err, entries |-> <<>>]
          ELSE ReaddirRecursive(fs, Tail(queue) \o direntPaths, result \o dirents)

\* an order in which the operating system may hand out the entries
ListingOrders == {"listed", "reversed", "rotated"}
Reorder(entries, order) ==
  IF order = "reversed" THEN [i \in 1..Len(entries) |-> entries[Len(entries) + 1 - i]]
  ELSE IF order = "rotated" /\ entries # <<>> THEN Append(Tail(entries), Head(entries))
  ELSE entries

\* children.sort(...): directories first, then by name; the sort is stable
RECURSIVE SortChildren(_)
SortChildren(children) ==
  LET Pos(name) == CHOOSE k \in 1..Len(LocaleOrder) : LocaleOrder[k] = name
      Before(a, b) == IF a.isDir # b.isDir THEN a.isDir ELSE Pos(a.name) < Pos(b.name)
      Insert(sorted, c) ==
        LET k == Cardinality({i \in 1..Len(sorted) : ~Before(c, sorted[i])})
        IN SubSeq(sorted, 1, k) \o <<c>> \o SubSeq(sorted, k + 1, Len(sorted))
  IN IF children = <<>> THEN <<>>
     ELSE Insert(SortChildren(SubSeq(children, 1, Len(children) - 1)),
                 children[Len(children)])

\* the key of the tree map an entry is pushed under
ParentDir(entry, basePathLength) ==
  LET fullPath == PathText(join(ParsePath(entry.parentPath), Rel(<<entry.name>>)))
      relativePath == Slice(fullPath, basePathLength + 1, Len(fullPath))
      lastSlashIndex == LastIndexOf(relativePath, "/")
  IN IF lastSlashIndex = -1 THEN "" ELSE Slice(relativePath, 0, lastSlashIndex)

RECURSIVE renderTree(_, _, _, _)
renderTree(tree, dirPath, prefix, i) ==
  IF dirPath \notin DOMAIN tree THEN <<>>
  ELSE LET children == tree[dirPath]
       IN IF i > Len(children) THEN <<>>
          ELSE LET child == children[i]
                   isLast == i = Len(children)
                   connector == IF isLast THEN "+-- " ELSE "|-- "
                   childName == IF child.isDir THEN child.name \o "/" ELSE child.name
                   childPath == IF dirPath # "" THEN dirPath \o "/" \o child.name
                                ELSE child.name
                   newPrefix == prefix \o (IF isLast THEN "    " ELSE "|   ")
               IN <<prefix \o connector \o childName>>
                  \o (IF child.isDir THEN renderTree(tree, childPath, newPrefix, 1) ELSE <<>>)
                  \o renderTree(tree, dirPath, prefix, i + 1)

\* captureSnapshot(path), the listing handed out in the given order
captureSnapshot(fs, path, order) ==
  LET listing == ReaddirRecursive(fs, <<path>>, <<>>)
      entries == Reorder(listing.entries, order)
      normalizedBasePath == normalizeText(StripSeparator(path))
      basePathLength == Len(normalizedBasePath)
      keys == {ParentDir(entries[i], basePathLength) : i \in 1..Len(entries)}
      tree == [k \in keys |->
                 SortChildren(SelectSeq(entries,
                                        LAMBDA e : ParentDir(e, basePathLength) = k))]
      result == <<basenameText(path) \o "/">> \o renderTree(tree, "", "", 1)
  IN IF listing.err # "" THEN [err |-> listing.err, text |-> ""]
     ELSE [err |-> "", text |-> JoinText(result, "\n")]

\* ------------------------------------------------------------------------
\* The factory of custom testdir functions
\* ------------------------------------------------------------------------
\* an options object: its keys with their values
Obj(fields) == [t |-> "object", fields |-> fields]
Issue(path, message) == [path |-> path, message |-> message]

\* optionsSchema.parse(value) for the schemas z.object({ timeout: z.number() }),
\* z.object({}), z.string(): the issues of the ZodError it throws, or the
\* value it returns, the keys the schema does not know stripped
SchemaParse(optionsSchema, value) ==
  CASE optionsSchema = "z.object({ timeout: z.number() })" ->
         IF value.t # "object"
         THEN [issues |-> <<Issue("", "expected object")>>, value |-> Undefined]
         ELSE IF "timeout" \notin DOMAIN value.fields
         THEN [issues |-> <<Issue("timeout", "Required")>>, value |-> Undefined]
         ELSE IF value.fields.timeout.t # "num"
         THEN [issues |-> <<Issue("timeout", "expected number")>>, value |-> Undefined]
         ELSE [issues |-> <<>>, value |-> Obj([timeout |-> value.fields.timeout])]
    [] optionsSchema = "z.object({})" ->
         IF value.t # "object"
         THEN [issues |-> <<Issue("", "expected object")>>, value |-> Undefined]
         ELSE [issues |-> <<>>, value |-> Obj(<<>>)]
    [] optionsSchema = "z.string()" ->
         IF value.t # "str"
         THEN [issues |-> <<Issue("", "expected string")>>, value |-> Undefined]
         ELSE [issues |-> <<>>, value |-> value]

Returned(value) == [threw |-> "", message |-> "", value |-> value]
Threw(error, message) == [threw |-> error, message |-> message, value |-> Undefined]

\* a parseOptions that lets the ZodError through as it is
parseOptions_RawZodError(rawOptions, optionsSchema) ==
  LET parsed == SchemaParse(optionsSchema,
                            IF rawOptions \in {Null, Undefined} THEN Obj(<<>>) ELSE rawOptions)
      issues == [i \in 1..Len(parsed.issues) |->
                   parsed.issues[i].path \o ": " \o parsed.issues[i].message]
  IN IF parsed.issues # <<>> THEN Threw("ZodError", JoinText(issues, ", "))
     ELSE IF TypeOf(parsed.value) # "object"
     THEN Threw("TypeError", "Custom options must be an object.")
     ELSE Returned(parsed.value)

parseOptions(rawOptions, optionsSchema) ==
  LET parsed == SchemaParse(optionsSchema,
                            IF rawOptions \in {Null, Undefined} THEN Obj(<<>>) ELSE rawOptions)
      issues == [i \in 1..Len(parsed.issues) |->
                   parsed.issues[i].path \o ": " \o parsed.issues[i].message]
  IN IF parsed.issues # <<>>
     THEN Threw("Error", "Options validation failed: " \o JoinText(issues, ", "))
     ELSE IF TypeOf(parsed.value) # "object"
     THEN Threw("TypeError", "Custom options must be an object.")
     ELSE Returned(parsed.value)

Pending == [status |-> "pending", value |-> Undefined, message |-> ""]
Resolved(value) == [status |-> "resolved", value |-> value, message |-> ""]
Rejected(message) == [status |-> "rejected", value |-> Undefined, message |-> message]

\* what opts.dirname resolves to, and what factoryFn resolves to
FixtureDirname == Abs(<<"t", "p", "custom">>)
FactoryResult(options, fixturePath, files) ==
  [t |-> "result", options |-> options, fixturePath |-> fixturePath, files |-> files]

\* customTestdir(files, rawOptions) up to its first await
customTestdir(opts, files, rawOptions) ==
  LET parsedOptions == parseOptions(rawOptions, opts.optionsSchema)
      call == [pc |-> "settled", opts |-> opts, files |-> files, rawOptions |-> rawOptions,
               parsedOptions |-> Undefined, fixturePath |-> NoPath, log |-> <<>>,
               factory |-> Pending, afterArgument |-> Undefined, outcome |-> Pending]
  IN IF parsedOptions.threw # ""
     THEN [call EXCEPT !.outcome = Rejected(parsedOptions.message)]
     ELSE [call EXCEPT !.pc = "await dirname", !.parsedOptions = parsedOptions.value,
                       !.log = <<"call dirname">>]

\* a continuation that goes on to the factory function without the before hook
afterDirname_NoBefore(c, ok) ==
  IF ~ok THEN [c EXCEPT !.pc = "settled", !.log = Append(@, "dirname threw"),
                        !.outcome = Rejected("dirname")]
  ELSE [c EXCEPT !.pc = "await factoryFn", !.fixturePath = FixtureDirname,
                 !.log = @ \o <<"dirname returned", "call factoryFn">>]

\* the await of opts.dirname is over: the before hook, or else the factory
\* function, is called
afterDirname(c, ok) ==
  IF ~ok THEN [c EXCEPT !.pc = "settled", !.log = Append(@, "dirname threw"),
                        !.outcome = Rejected("dirname")]
  ELSE IF c.opts.before
  THEN [c EXCEPT !.pc = "await before", !.fixturePath = FixtureDirname,
                 !.log = @ \o <<"dirname returned", "call before">>]
  ELSE [c EXCEPT !.pc = "await factoryFn", !.fixturePath = FixtureDirname,
                 !.log = @ \o <<"dirname returned", "call factoryFn">>]

\* the await of opts.before is over
afterBefore(c, ok) ==
  IF ~ok THEN [c EXCEPT !.pc = "settled", !.log = Append(@, "before threw"),
                        !.outcome = Rejected("before")]
  ELSE [c EXCEPT !.pc = "await factoryFn",
                 !.log = @ \o <<"before returned", "call factoryFn">>]

\* a call of the after hook that follows the await without try ... finally:
\* a rejection of the factory function leaves the function at once
afterFactoryFn_NoFinally(c, ok) ==
  LET settled == IF ok THEN Resolved(FactoryResult(c.parsedOptions, c.fixturePath, c.files))
                 ELSE Rejected("factoryFn")
      logged == Append(c.log, IF ok THEN "factoryFn returned" ELSE "factoryFn threw")
  IN IF c.opts.after /\ ok
     THEN [c EXCEPT !.pc = "await after", !.factory = settled,
                    !.afterArgument = c.parsedOptions,
                    !.log = Append(logged, "call after")]
     ELSE [c EXCEPT !.pc = "settled", !.factory = settled, !.log = logged,
                    !.outcome = settled]

\* the await of factoryFn is over: the finally block, which calls
\* opts.after(parsedOptions)
afterFactoryFn(c, ok) ==
  LET settled == IF ok THEN Resolved(FactoryResult(c.parsedOptions, c.fixturePath, c.files))
                 ELSE Rejected("factoryFn")
      logged == Append(c.log, IF ok THEN "factoryFn returned" ELSE "factoryFn threw")
  IN IF c.opts.after
     THEN [c EXCEPT !.pc = "await after", !.factory = settled,
                    !.afterArgument = c.parsedOptions,
                    !.log = Append(logged, "call after")]
     ELSE [c EXCEPT !.pc = "settled", !.factory = settled, !.log = logged,
                    !.outcome = settled]

\* the await of opts.after is over: its error replaces what the try block
\* ended with
afterAfter(c, ok) ==
  IF ~ok THEN [c EXCEPT !.pc = "settled", !.log = Append(@, "after threw"),
                        !.outcome = Rejected("after")]
  ELSE [c EXCEPT !.pc = "settled", !.log = Append(@, "after returned"),
                 !.outcome = c.factory]

\* ------------------------------------------------------------------------
\* The callers' inputs
\* ------------------------------------------------------------------------
Txt(c) == Str(<<c>>)
N(name) == Rel(<<name>>)
One(name, content) == Files(<<Entry(N(name), content)>>, NoProv)
Two(n1, c1, n2, c2) == Files(<<Entry(N(n1), c1), Entry(N(n2), c2)>>, NoProv)

\* descriptions with symbolic and hard link markers
FamLinks ==
  { Two("f", Txt("x"), "l", symlink(Rel(<<"f">>))),
    Two("l", symlink(Rel(<<".", "f">>)), "f", Txt("x")),
    Two("f", Txt("x"), "n",
        Two("m", symlink(Rel(<<"..", "f">>)), "g", Txt("y"))),
    Two("n", Two("e", NoFiles, "m", symlink(Rel(<<"..", "..", "o">>))),
        "l", symlink(Rel(<<"n">>))),
    One("l", symlink(Rel(<<"..", "o">>))),
    One("l", symlink(Rel(<<"nope">>))),
    Two("a", Txt("y"), "l", symlink(Abs(<<"w", "o">>))),
    Two("f", Txt("x"), "a", link(Rel(<<"f">>))),
    Two("a", link(Rel(<<"f">>)), "f", Txt("x")) }

\* every variant of primitive content
Prims ==
  { Txt("x"), Str(<<>>), Str(<<"x", "y">>), Num(123), Num(0), Num(-5), Bool(TRUE),
    Bool(FALSE), Null, Undefined, Bytes(<<116, 101>>), Bytes(<<255, 0>>) }

Mode(a, b, c) == [mode |-> Oct(a, b, c)]

\* values written without the constructors, with what they are
Literals ==
  { <<"object", NoFiles>>, <<"object", One("content", Txt("x"))>>,
    <<"object", One("path", Txt("x"))>>, <<"object", One("testdir-symlink", Txt("x"))>>,
    <<"object", Two("path", Txt("x"), "content", Txt("y"))>>,
    <<"array", Arr(<<>>)>>, <<"array", Arr(<<Txt("x")>>)>>,
    <<"string", Str(<<>>)>>, <<"string", Txt("x")>>,
    <<"number", Num(123)>>, <<"number", Num(0)>>,
    <<"boolean", Bool(TRUE)>>, <<"boolean", Bool(FALSE)>>,
    <<"null", Null>>, <<"undefined", Undefined>>,
    <<"bigint", BigInt(0)>>, <<"bigint", BigInt(5)>>,
    <<"symbol", Sym("s", 1)>>, <<"symbol", Sym("testdir-symlink", 1)>>,
    <<"symbol", FIXTURE_TYPE_SYMLINK_SYMBOL>>, <<"symbol", FIXTURE_METADATA_SYMBOL>>,
    <<"Uint8Array", Bytes(<<>>)>>, <<"Uint8Array", Bytes(<<116, 101>>)>>,
    <<"function", Func>> }

MarkerPaths ==
  { Rel(<<"f">>), Rel(<<".", "f">>), Rel(<<"..", "f">>), Rel(<<"d", "f">>), Rel(<<>>),
    Abs(<<"w", "o">>), Abs(<<>>) }

WrappedContents ==
  Prims \cup { NoFiles, One("content", Txt("x")), symlink(Rel(<<"f">>)), link(Rel(<<"f">>)),
               metadata(Txt("x"), [mode |-> Oct(6, 4, 4)]) }

Metadatas == { NoMeta, Mode(7, 5, 5), Mode(0, 0, 0) }

\* primitives, names with separators, metadata wrappers
FamBasic ==
  { One("a", c) : c \in Prims }
  \cup
  { Files(<<Entry(Rel(<<"d", "f">>), Txt("x"))>>, NoProv),
    Files(<<Entry(Rel(<<"d", "e", "f">>), Num(123))>>, NoProv),
    Files(<<Entry(N("f"), Txt("x")), Entry(Rel(<<"d", "f">>), Txt("y"))>>, NoProv),
    Two("f", metadata(Txt("x"), Mode(6, 4, 4)),
        "d", Two("g", metadata(Txt("y"), Mode(4, 4, 4)),
                 "e", metadata(One("f", Txt("x")), Mode(5, 5, 5)))),
    Two("d", metadata(Two("f", Txt("x"), "g", Txt("y")), Mode(4, 4, 4)), "b", Txt("x")),
    One("d", metadata(One("f", Txt("x")), Mode(0, 0, 0))),
    One("d", metadata(One("e", NoFiles), Mode(5, 0, 0))),
    One("d", metadata(NoFiles, Mode(5, 5, 5))),
    One("d", metadata(One("f", Bool(TRUE)), NoMeta)),
    Two("a", metadata(Null, Mode(0, 0, 0)), "b", metadata(Bytes(<<116>>), Mode(7, 5, 5))),
    Files(<<Entry(Rel(<<"d", "f">>), Txt("x")),
            Entry(N("d"), metadata(One("g", Txt("y")), Mode(5, 5, 5)))>>, NoProv) }

\* one primitive under a name with separators
FlatNames == {<<"d", "f">>, <<"d", "e", "f">>}
FlatContents ==
  {Txt("x"), Str(<<>>), Num(123), Null, Bytes(<<116, 101>>)}
FamFlat ==
  {Files(<<Entry(Rel(segs), c)>>, NoProv) : segs \in FlatNames, c \in FlatContents}

\* text files and directories only, MaxDepth directories deep: a chain of
\* directories a with one sibling b beside the chain at level at (none at 0)
RECURSIVE Chain(_, _, _)
Chain(k, at, leaf) ==
  IF k = 0 THEN leaf
  ELSE IF k = at THEN Two("b", Txt("y"), "a", Chain(k - 1, at, leaf))
       ELSE One("a", Chain(k - 1, at, leaf))

\* directories that have entries and are followed by siblings
Uncles == Two("d", Two("e", One("f", Txt("x")), "g", Txt("y")), "m", Txt("x"))

FamDeep ==
  { Chain(MaxDepth, at, leaf) :
      at \in {0, 1, MaxDepth}, leaf \in {NoFiles, One("f", Txt("x"))} }
  \cup {NoFiles, Two("e", NoFiles, "f", Str(<<>>)), Uncles}

\* descriptions with the names e and g at several levels, some of them
\* directories and files that cannot be read
FamIgnore ==
  { Two("e", metadata(NoFiles, Mode(3, 0, 0)), "f", Txt("x")),
    Two("d", Two("g", metadata(Txt("y"), Mode(2, 0, 0)), "f", Txt("x")), "a", Txt("y")),
    Two("d", One("e", One("f", Txt("x"))), "g", Txt("y")),
    Two("a", Two("e", One("b", Txt("x")), "b", One("g", NoFiles)), "e", One("a", Txt("x"))),
    Two("g", symlink(Rel(<<"f">>)), "f", One("e", symlink(Rel(<<"..", "g">>)))),
    One("f", One("d", Two("a", Txt("x"), "e", metadata(NoFiles, Mode(3, 0, 0))))),
    Two("a", Txt("x"), "b", One("f", Txt("y"))) }

\* directory trees to take snapshots of
FamSnapshot ==
  { NoFiles,
    One("f", Txt("x")),
    Two("b", Txt("x"), "a", One("f", Txt("y"))),
    Uncles,
    Two("t", One("a", Txt("x")), "out", One("f", Txt("y"))),
    Two("l", symlink(Rel(<<"d">>)), "d", Two("g", Txt("x"), "e", NoFiles)) }

\* the options createCustomTestdir is given and the options its function is called with
FactoryOptions ==
  [optionsSchema : {"z.object({ timeout: z.number() })", "z.object({})", "z.string()"},
   before : BOOLEAN, after : BOOLEAN]

RawOptions ==
  { Undefined, Obj(<<>>), Obj([timeout |-> Num(5000)]),
    Obj([timeout |-> Str(<<"i", "n", "v", "a", "l", "i", "d">>)]),
    Obj([debug |-> Bool(TRUE)]), Str(<<"t", "e", "x", "t">>) }

\* fixtures to release, some with entries whose mode keeps the owner out
FamRelease ==
  { NoFiles,
    One("f", Txt("x")),
    Two("d", Two("e", One("f", Txt("x")), "g", Txt("y")), "l", symlink(Rel(<<"d">>))),
    Two("a", metadata(Txt("x"), Mode(0, 0, 0)), "d", metadata(NoFiles, Mode(5, 5, 5))),
    Two("d", metadata(One("f", Txt("x")), Mode(3, 0, 0)), "a", Txt("y")),
    One("l", symlink(Abs(<<"w", "o">>))) }

\* descriptions TypeScript rejects and JavaScript callers can pass
FamMalformed ==
  { One("a", metadata(metadata(Txt("x"), Mode(6, 0, 0)), Mode(7, 0, 0))),
    One("a", metadata(metadata(One("f", Txt("x")), NoMeta), NoMeta)),
    Two("f", Txt("y"), "a", metadata(metadata(Txt("x"), NoMeta), Mode(5, 5, 5))),
    One("a", Arr(<<Txt("x"), Txt("y")>>)),
    One("a", Arr(<<>>)),
    Two("a", Func, "f", Txt("x")),
    One("d", One("a", Arr(<<One("f", Txt("x"))>>))),
    One("a", metadata(Arr(<<Txt("x")>>), Mode(7, 5, 5))),
    One("a", metadata(Txt("x"), Mode(6, 4, 4))),
    One("a", metadata(One("f", Txt("x")), Mode(7, 5, 5))) }

\* names with separators, for every variant of content
FamSeparators ==
  { Files(<<Entry(Rel(<<"d", "f">>), c)>>, NoProv) :
      c \in {Txt("x"), Bytes(<<116>>), NoFiles, One("g", Txt("y")), symlink(Rel(<<"..", "f">>)),
             symlink(Abs(<<"w", "o">>)), link(Abs(<<"w", "o">>)),
             metadata(Txt("x"), Mode(6, 0, 0)), metadata(symlink(Rel(<<"g">>)), NoMeta)} }
  \cup
  { Files(<<Entry(N("f"), Txt("x")), Entry(Rel(<<"d", "e", "a">>), link(Rel(<<"..", "..", "f">>)))>>,
          NoProv),
    Files(<<Entry(N("d"), NoFiles), Entry(Rel(<<"d", "l">>), symlink(Rel(<<"f">>)))>>, NoProv),
    Files(<<Entry(N("d"), NoFiles), Entry(Rel(<<"d", "a">>), link(Abs(<<"w", "o">>)))>>, NoProv),
    Files(<<Entry(Rel(<<"d", "e">>), One("f", Txt("x"))),
            Entry(Rel(<<"d", "e", "l">>), symlink(Rel(<<"f">>)))>>, NoProv) }

\* the filesystem before the program runs: the working directory /w with a
\* file o, the real temporary directory /t/p and /s, a symbolic link to it
BaseFS ==
  (<<>> :> DirNode(Oct(7, 5, 5)))
  @@ (<<"w">> :> DirNode(Oct(7, 5, 5)))
  @@ (<<"w", "o">> :> FileNode(Oct(6, 4, 4), <<121>>, 1))
  @@ (<<"t">> :> DirNode(Oct(7, 5, 5)))
  @@ (<<"t", "p">> :> DirNode(Oct(7, 5, 5)))
  @@ (<<"s">> :> SymlinkNode(Abs(<<"t", "p">>)))

\* os.tmpdir()
tmpdir == Abs(<<"s">>)

\* fs.realpathSync(p) of an existing path
realpathSync(fs, p) == Abs(Phys(fs, p, TRUE).p)

\* `testdirs-${randomUUID()}`: a name no earlier call has drawn
FixtureName(n) ==
  CASE n = 0 -> "testdirs-u1" [] n = 1 -> "testdirs-u2" [] OTHER -> "testdirs-u3"

\* the filePath arguments of createFileTree and the dirname options of testdir
Dests == {Rel(<<"out">>)}
NoDirname == Rel(<<>>)
Dirnames == {NoDirname, Rel(<<"out">>), Abs(<<"s">>)}

DefaultOptions ==
  [ignore |-> {}, followLinks |-> TRUE, encoding |-> "utf-8", extras |-> NoFiles]
ScanOptions ==
  { DefaultOptions,
    [DefaultOptions EXCEPT !.followLinks = FALSE],
    [DefaultOptions EXCEPT !.ignore = {"e", "g"},
                           !.extras = Two("a", Txt("x"), "p", One("f", Txt("y"))),
                           !.encoding = "buffer"] }

\* ------------------------------------------------------------------------
\* State
\* ------------------------------------------------------------------------
VARIABLES
  fs,        \* the filesystem
  desc,      \* the tree description the caller holds
  stack,     \* the activations of createFileTree, innermost last
  err,       \* the error the running or last materialization has thrown
  last,      \* the entry the last loop iteration worked on
  isSync,    \* the caller uses the blocking variants
  runs,      \* materializations started
  scans,     \* scans made
  origin,    \* how desc was obtained
  scanErr,   \* the error the last scan has thrown
  dest,      \* filePath of the running or last materialization
  given,     \* the description that materialization was given
  pre,       \* the filesystem when that materialization was started
  call,      \* the function that started it and its dirname option
  classified,\* a value handed to the helpers and what they returned
  snapshot,  \* the last call of captureSnapshot and the lines it returned
  custom     \* a call of a function made by createCustomTestdir

vars ==
  <<fs, desc, stack, err, last, isSync, runs, scans, origin, scanErr, dest, given, pre,
    call, classified, snapshot, custom>>

\* what the calls of testdir, createFileTree and fromFileSystem leave alone
others == <<classified, snapshot, custom>>

NoCall == [op |-> "none", dirname |-> NoDirname, removes |-> 0, removeErr |-> ""]

\* nothing handed to the helpers, no snapshot taken, no custom testdir called
NoVerdict == [isLink |-> FALSE, isSymlink |-> FALSE, hasMetadata |-> FALSE, isPrimitive |-> FALSE]
NotClassified == [pc |-> "none", by |-> "none", value |-> Undefined, verdict |-> NoVerdict]
NoSnapshot == [pc |-> "none", path |-> "", err |-> "", text |-> "", atRuns |-> 0]
NotCalled == [pc |-> "idle", outcome |-> Pending]

\* origin: the last call of fromFileSystem, whether its path was a directory
\* then, and the number of materializations started before it
Authored ==
  [scanned |-> FALSE, path |-> NoPath, options |-> DefaultOptions, wasDir |-> FALSE,
   atRuns |-> 0]

InitWith(family) ==
  /\ fs = BaseFS
  /\ desc \in family
  /\ stack = <<>>
  /\ err = ""
  /\ last = NoLast
  /\ isSync \in BOOLEAN
  /\ runs = 0
  /\ scans = 0
  /\ origin = Authored
  /\ scanErr = ""
  /\ dest = NoPath
  /\ given = NoFiles
  /\ pre = BaseFS
  /\ call = NoCall
  /\ classified = NotClassified
  /\ snapshot = NoSnapshot
  /\ custom = NotCalled

Running == stack # <<>> /\ err = ""

\* createFileTree(filePath, desc) / createFileTreeSync(filePath, desc) is called
CreateFileTree(filePath) ==
  /\ ~Running
  /\ runs < MaxRuns
  /\ stack' = Unwind(desc, <<Frame(filePath, <<>>, 1)>>)
  /\ err' = ""
  /\ last' = NoLast
  /\ runs' = runs + 1
  /\ dest' = filePath
  /\ given' = desc
  /\ pre' = fs
  /\ call' = [op |-> "createFileTree", dirname |-> NoDirname, removes |-> 0, removeErr |-> ""]
  /\ UNCHANGED <<fs, desc, isSync, scans, origin, scanErr, others>>

\* testdir(desc, { dirname }) / testdirSync(desc, { dirname }) up to its
\* call of createFileTree
FixturePath(f, dirnameOpt, u) ==
  IF isSync
  THEN IF dirnameOpt # NoDirname THEN resolve1(dirnameOpt)
       ELSE join(realpathSync(f, tmpdir), N(FixtureName(u)))
  ELSE join(IF dirnameOpt # NoDirname THEN resolve1(dirnameOpt) ELSE realpathSync(f, tmpdir),
            N(FixtureName(u)))

Testdir(dirnameOpt) ==
  LET fixturePath == FixturePath(fs, dirnameOpt, runs)
      made == MkdirP(fs, fixturePath, Oct(7, 7, 7))
  IN /\ ~Running
     /\ runs < MaxRuns
     /\ fs' = made.fs
     /\ err' = made.err
     /\ stack' = IF made.err # "" THEN <<>>
                 ELSE Unwind(desc, <<Frame(fixturePath, <<>>, 1)>>)
     /\ last' = NoLast
     /\ runs' = runs + 1
     /\ dest' = fixturePath
     /\ given' = desc
     /\ pre' = made.fs
     /\ call' = [op |-> "testdir", dirname |-> dirnameOpt, removes |-> 0, removeErr |-> ""]
     /\ UNCHANGED <<desc, isSync, scans, origin, scanErr, others>>

\* one iteration of the loop of the innermost createFileTree
Step ==
  LET st == [fs |-> fs, desc |-> desc, stack |-> stack, err |-> err, last |-> last]
      nx == CreateFileTreeStep(st, isSync)
  IN /\ stack # <<>>
     /\ ~Aborted(st)
     /\ fs' = nx.fs
     /\ desc' = nx.desc
     /\ stack' = nx.stack
     /\ err' = nx.err
     /\ last' = nx.last
     /\ UNCHANGED <<isSync, runs, scans, origin, scanErr, dest, given, pre, call, others>>

\* desc = await fromFileSystem(path, options) / fromFileSystemSync(path, options)
FromFileSystem(path, options) ==
  LET r == fromFileSystem(fs, path, options, isSync)
  IN /\ ~Running
     /\ scans < MaxScans
     /\ scans' = scans + 1
     /\ scanErr' = r.err
     /\ desc' = IF r.err = "" THEN r.files ELSE desc
     /\ origin' = [scanned |-> TRUE, path |-> path, options |-> options,
                    wasDir |-> Phys(fs, path, TRUE).st = "found"
                               /\ fs[Phys(fs, path, TRUE).p].k = "dir",
                    atRuns |-> runs]
     /\ UNCHANGED <<fs, stack, err, last, isSync, runs, dest, given, pre, call, others>>

ScanPaths == {dest, Rel(<<"nope">>), Rel(<<"o">>)}

\* testdir has returned its result object
HasReturned == call.op = "testdir" /\ stack = <<>> /\ err = ""

\* dir.remove(), dir[Symbol.asyncDispose]() / dir[Symbol.dispose]()
Remove ==
  LET r == Rm(fs, dest)
  IN /\ HasReturned
     /\ call.removes < MaxRemoves
     /\ fs' = r.fs
     /\ call' = [call EXCEPT !.removes = @ + 1, !.removeErr = r.err]
     /\ UNCHANGED <<desc, stack, err, last, isSync, runs, scans, origin, scanErr, dest, given,
                    pre, others>>

\* another process deletes the fixture directory, whatever its modes
DeletedElsewhere ==
  LET w == Phys(fs, dest, FALSE)
  IN /\ HasReturned
     /\ w.st = "found"
     /\ fs' = [q \in {x \in DOMAIN fs : ~IsPrefix(w.p, x)} |-> fs[q]]
     /\ UNCHANGED <<desc, stack, err, last, isSync, runs, scans, origin, scanErr, dest, given,
                    pre, call, others>>

NextRelease ==
  \/ \E dirnameOpt \in Dirnames : Testdir(dirnameOpt)
  \/ Step
  \/ Remove
  \/ DeletedElsewhere

main == <<fs, desc, stack, err, last, isSync, runs, scans, origin, scanErr, dest, given, pre, call>>

\* the caller writes a value that no constructor of the library made
Literal(kind, value) ==
  /\ classified.pc # "built"
  /\ classified' = [pc |-> "built", by |-> kind, value |-> value, verdict |-> NoVerdict]
  /\ UNCHANGED <<main, snapshot, custom>>

\* value = symlink(path)
CallSymlink(path) ==
  /\ classified.pc # "built"
  /\ classified' = [pc |-> "built", by |-> "symlink", value |-> symlink(path),
                    verdict |-> NoVerdict]
  /\ UNCHANGED <<main, snapshot, custom>>

\* value = link(path)
CallLink(path) ==
  /\ classified.pc # "built"
  /\ classified' = [pc |-> "built", by |-> "link", value |-> link(path), verdict |-> NoVerdict]
  /\ UNCHANGED <<main, snapshot, custom>>

\* value = metadata(content, md)
CallMetadata(content, md) ==
  /\ classified.pc # "built"
  /\ classified' = [pc |-> "built", by |-> "metadata", value |-> metadata(content, md),
                    verdict |-> NoVerdict]
  /\ UNCHANGED <<main, snapshot, custom>>

\* isLink(value), isSymlink(value), hasMetadata(value), isPrimitive(value)
Classify ==
  /\ classified.pc = "built"
  /\ classified' = [classified EXCEPT
                      !.pc = "classified",
                      !.verdict = [isLink |-> isLink(classified.value),
                                   isSymlink |-> isSymlink(classified.value),
                                   hasMetadata |-> hasMetadata(classified.value),
                                   isPrimitive |-> isPrimitive(classified.value)]]
  /\ UNCHANGED <<main, snapshot, custom>>

\* text = await captureSnapshot(path); a behaviour takes one snapshot, at
\* any moment between the materializations
CaptureSnapshot(path, order) ==
  LET r == captureSnapshot(fs, path, order)
  IN /\ ~Running
     /\ snapshot = NoSnapshot
     /\ snapshot' = [pc |-> "returned", path |-> path, err |-> r.err, text |-> r.text,
                    atRuns |-> runs]
     /\ UNCHANGED <<main, classified, custom>>

SnapshotPaths == {PathText(dest), ".", "./", "out/", "./out", "../w/out", "nope"}

NextSnapshot ==
  \/ \E filePath \in Dests : CreateFileTree(filePath)
  \/ \E dirnameOpt \in Dirnames : Testdir(dirnameOpt)
  \/ Step
  \/ \E path \in SnapshotPaths, order \in ListingOrders : CaptureSnapshot(path, order)

\* the caller calls a function made by createCustomTestdir
CustomTestdir(opts, rawOptions) ==
  /\ custom.pc \in {"idle", "settled"}
  /\ custom' = customTestdir(opts, desc, rawOptions)
  /\ UNCHANGED <<main, classified, snapshot>>

\* the promise of opts.dirname settles
DirnameSettles(ok) ==
  /\ custom.pc = "await dirname"
  /\ custom' = afterDirname(custom, ok)
  /\ UNCHANGED <<main, classified, snapshot>>

\* the promise of opts.before settles
BeforeSettles(ok) ==
  /\ custom.pc = "await before"
  /\ custom' = afterBefore(custom, ok)
  /\ UNCHANGED <<main, classified, snapshot>>

\* the promise of factoryFn settles
FactoryFnSettles(ok) ==
  /\ custom.pc = "await factoryFn"
  /\ custom' = afterFactoryFn(custom, ok)
  /\ UNCHANGED <<main, classified, snapshot>>

\* the promise of opts.after settles
AfterSettles(ok) ==
  /\ custom.pc = "await after"
  /\ custom' = afterAfter(custom, ok)
  /\ UNCHANGED <<main, classified, snapshot>>

NextFactory ==
  \/ \E opts \in FactoryOptions, rawOptions \in RawOptions : CustomTestdir(opts, rawOptions)
  \/ \E ok \in BOOLEAN : DirnameSettles(ok)
  \/ \E ok \in BOOLEAN : BeforeSettles(ok)
  \/ \E ok \in BOOLEAN : FactoryFnSettles(ok)
  \/ \E ok \in BOOLEAN : AfterSettles(ok)

NextHelpers ==
  \/ \E x \in Literals : Literal(x[1], x[2])
  \/ \E path \in MarkerPaths : CallSymlink(path)
  \/ \E path \in MarkerPaths : CallLink(path)
  \/ \E content \in WrappedContents, md \in Metadatas : CallMetadata(content, md)
  \/ Classify

Next ==
  \/ \E filePath \in Dests : CreateFileTree(filePath)
  \/ \E dirnameOpt \in Dirnames : Testdir(dirnameOpt)
  \/ Step
  \/ \E path \in ScanPaths, options \in ScanOptions : FromFileSystem(path, options)

Init == InitWith(FamBasic)
Spec == Init /\ [][Next]_vars

InitLinks == InitWith(FamLinks)
SpecLinks == InitLinks /\ [][Next]_vars

InitFlat == InitWith(FamFlat)
SpecFlat == InitFlat /\ [][Next]_vars

InitDeep == InitWith(FamDeep)
SpecDeep == InitDeep /\ [][Next]_vars

InitIgnore == InitWith(FamIgnore)
SpecIgnore == InitIgnore /\ [][Next]_vars

InitSnapshot == InitWith(FamSnapshot)
SpecSnapshot == InitSnapshot /\ [][NextSnapshot]_vars

InitFactory == InitWith({NoFiles})
SpecFactory == InitFactory /\ [][NextFactory]_vars

InitRelease == InitWith(FamRelease)
SpecRelease == InitRelease /\ [][NextRelease]_vars

InitSeparators == InitWith(FamSeparators)
SpecSeparators == InitSeparators /\ [][Next]_vars

InitMalformed == InitWith(FamMalformed)
SpecMalformed == InitMalformed /\ [][Next]_vars

InitHelpers == InitWith({NoFiles})
SpecHelpers == InitHelpers /\ [][NextHelpers]_vars

\* ------------------------------------------------------------------------
\* What the properties observe
\* ------------------------------------------------------------------------
\* the physical paths of the nodes below the directory root
Below(f, root) == {q \in DOMAIN f : IsPrefix(root, q) /\ q # root}
RelTo(root, q) == SubSeq(q, Len(root) + 1, Len(q))

\* what a reader finds at the physical path q
Seen(f, q) ==
  IF f[q].k = "symlink"
  THEN LET w == Phys(f, Abs(q), TRUE)
       IN IF w.st = "found" THEN [k |-> "symlink", to |-> f[w.p].k, data |-> f[w.p].data]
          ELSE [k |-> "symlink", to |-> "nothing", data |-> <<>>]
  ELSE [k |-> f[q].k, to |-> f[q].k, data |-> f[q].data]

\* names, kinds and contents at every level below root
Shape(f, root) == {<<RelTo(root, q), Seen(f, q)>> : q \in Below(f, root)}

\* the entries of a description at every level: the names from the top and
\* the content, IsDirectory for a nested description
IsDirectory == [t |-> "directory"]

RECURSIVE Flat(_)
Flat(files) ==
  UNION { LET e == files.entries[i]
          IN IF e.content.t = "dir"
             THEN {<<e.name.segs, IsDirectory>>}
                  \cup {<<e.name.segs \o x[1], x[2]>> : x \in Flat(e.content)}
             ELSE {<<e.name.segs, e.content>>}
          : i \in 1..Len(files.entries) }

\* a description of text files and directories whose names have no separator
RECURSIVE TextAndDirs(_)
TextAndDirs(files) ==
  \A i \in 1..Len(files.entries) :
    LET e == files.entries[i]
    IN /\ Len(e.name.segs) = 1
       /\ e.name.segs[1] \notin {".", ".."}
       /\ \/ e.content.t = "str"
          \/ e.content.t = "dir" /\ TextAndDirs(e.content)

\* nothing was at the destination, or an empty directory
EmptyBefore(f, d) ==
  LET w == Phys(f, d, TRUE)
  IN \/ w.st = "missing"
     \/ w.st = "found" /\ f[w.p].k = "dir" /\ Below(f, w.p) = {}

\* the last materialization is over and was given what the last scan returned
ScannedThenMaterialized ==
  /\ ~Running
  /\ runs >= 1
  /\ origin.scanned
  /\ origin.wasDir
  /\ scanErr = ""
  /\ origin.atRuns = runs - 1

\* ------------------------------------------------------------------------
\* Properties
\* ------------------------------------------------------------------------

\* C1: round-trip clone.  When the scan of a directory (default options) is
\* materialized into an empty directory apart from the scanned directory,
\* the materialization succeeds and the destination has the same names and
\* kinds at every level, every regular file the same content, and every
\* symbolic link resolves to what the corresponding link of the scanned
\* directory resolves to.
C1_RoundTripClone ==
  LET src == Phys(fs, origin.path, TRUE)
      was == Phys(pre, dest, TRUE)
      dst == Phys(fs, dest, TRUE)
  IN (/\ ScannedThenMaterialized
      /\ origin.options = DefaultOptions
      /\ was.st = "found"
      /\ EmptyBefore(pre, dest)
      /\ ~IsPrefix(src.p, was.p)
      /\ ~IsPrefix(was.p, src.p))
     => /\ err = ""
        /\ (IF dst.st = "found" THEN Shape(fs, dst.p) ELSE {}) = Shape(fs, src.p)

\* C2: symlink re-basing.  When a description the scanner produced has been
\* materialized, at whatever destination, every materialized symbolic link
\* resolves to the node the scanned link of the same place resolves to.
C2_RebasedLinkResolvesAsOriginal ==
  (ScannedThenMaterialized /\ err = "" /\ given.prov.has)
  => \A x \in Flat(given) :
       isSymlink(x[2]) =>
         LET orig == Phys(fs, [abs |-> origin.path.abs, segs |-> origin.path.segs \o x[1]], TRUE)
             new == Phys(fs, [abs |-> dest.abs, segs |-> dest.segs \o x[1]], TRUE)
         IN /\ (new.st = "found") = (orig.st = "found")
            /\ orig.st = "found" => new.p = orig.p

\* C3: failure semantics.  The loop iteration in which a filesystem call
\* fails leaves every node that was on disk as it was and leaves the loops
\* where they stood; from then on, until the caller starts another
\* materialization, the disk, the error and the loops stay as they are.
C3_FailureSemantics ==
  [][ (runs' = runs) =>
        /\ (err = "" /\ err' # "") =>
             /\ stack' = stack
             /\ \A q \in DOMAIN fs : q \in DOMAIN fs' /\ fs'[q] = fs[q]
        /\ (err # "") => (fs' = fs /\ err' = err /\ stack' = stack /\ last' = last)
    ]_vars

\* C3 witness: a materialization has failed after it had created something,
\* with entries of the failed loop still to come
C3_Witness ==
  /\ err = "EACCES"
  /\ fs # pre
  /\ stack # <<>>
  /\ stack[Len(stack)].idx < Len(FilesAt(desc, stack[Len(stack)].at).entries)

\* the text String(value) gives for the values the callers pass
C4_Text(c) ==
  CASE c.t = "str" -> c.text
    [] c = Num(123) -> <<"1", "2", "3">>
    [] c = Num(0) -> <<"0">>
    [] c = Num(-5) -> <<"-", "5">>
    [] c = Bool(TRUE) -> <<"t", "r", "u", "e">>
    [] c = Bool(FALSE) -> <<"f", "a", "l", "s", "e">>
    [] c = Null -> <<"n", "u", "l", "l">>
    [] c = Undefined -> <<"u", "n", "d", "e", "f", "i", "n", "e", "d">>

\* C4: primitive coercion.  After the loop iteration of an entry with
\* primitive content has succeeded, the file at the entry's path holds the
\* given bytes for a byte sequence and otherwise the text of the value: the
\* string itself, "123", "true", "null", "undefined".
C4_PrimitiveCoercion ==
  [][ (runs' = runs /\ scans' = scans /\ err' = "" /\ isPrimitive(Unwrap(last'.content))) =>
        LET c == Unwrap(last'.content)
            w == Phys(fs', last'.filename, TRUE)
        IN /\ w.st = "found"
           /\ fs'[w.p].k = "file"
           /\ IF c.t = "bytes" THEN fs'[w.p].data = c.bytes
              ELSE Utf8Decode(fs'[w.p].data) = C4_Text(c)
    ]_vars

\* C4 witness: the number 123 has been written as the text "123"
C4_Witness ==
  /\ err = ""
  /\ last.content = Num(123)
  /\ LET w == Phys(fs, last.filename, TRUE)
     IN w.st = "found" /\ fs[w.p].data = <<49, 50, 51>>

\* C5: after the loop iteration of a symbolic link marker in a description
\* without provenance has succeeded, a symbolic link is at the entry's path
\* and its stored target is the marker's path, in both variants.
C5_LiteralTargetWithoutProvenance ==
  [][ (/\ runs' = runs /\ scans' = scans /\ err' = ""
       /\ isSymlink(Unwrap(last'.content)) /\ ~last'.hasProv) =>
        LET w == Phys(fs', last'.filename, FALSE)
        IN /\ w.st = "found"
           /\ fs'[w.p].k = "symlink"
           /\ fs'[w.p].target = Unwrap(last'.content).path
    ]_vars

\* C5 witness: the marker symlink("../f") of a nested description has been
\* created by the synchronous variant
C5_Witness ==
  /\ err = ""
  /\ isSync
  /\ ~last.hasProv
  /\ last.content = symlink(Rel(<<"..", "f">>))
  /\ LET w == Phys(fs, last.filename, FALSE)
     IN w.st = "found" /\ fs[w.p].target = Rel(<<"..", "f">>)

\* the nested description {d1: {... {dn: {f: c}}}} of the name d1/.../dn/f
RECURSIVE C6_Nested(_, _)
C6_Nested(segs, c) ==
  IF Len(segs) = 1 THEN One(segs[1], c) ELSE One(Head(segs), C6_Nested(Tail(segs), c))

\* C6: flat-path equivalence.  When the single entry "d1/.../dn/f" with
\* primitive content has been materialized, the filesystem and the outcome
\* are those the nested description {d1: {... {dn: {f: c}}}} gives from the
\* same filesystem at the same destination.
C6_FlatPathEquivalence ==
  (~Running /\ runs >= 1 /\ given \in FamFlat) =>
    LET e == given.entries[1]
        nested == createFileTree(pre, dest, C6_Nested(e.name.segs, e.content), isSync)
    IN fs = nested.fs /\ err = nested.err

\* C6 witness: the entry "d/e/f" has been materialized into a destination
\* that had neither d nor e, and the file is there
C6_Witness ==
  /\ ~Running
  /\ err = ""
  /\ runs = 1
  /\ given = Files(<<Entry(Rel(<<"d", "e", "f">>), Num(123))>>, NoProv)
  /\ fs = createFileTree(pre, dest, C6_Nested(<<"d", "e", "f">>, Num(123)), isSync).fs
  /\ LET w == Phys(fs, resolve(dest, Rel(<<"d", "e", "f">>)), TRUE)
     IN w.st = "found" /\ fs[w.p].k = "file" /\ Phys(pre, resolve(dest, N("d")), TRUE).st # "found"

\* C7: scan after materialize.  When a description of text files and
\* directories has been materialized into an empty or absent directory and
\* that directory is then scanned with the default options, both succeed and
\* the scan has the entries of the description at every level.
C7_ScanAfterMaterialize ==
  (/\ ~Running
   /\ runs >= 1
   /\ origin.scanned
   /\ origin.atRuns = runs
   /\ origin.path = dest
   /\ origin.options = DefaultOptions
   /\ TextAndDirs(given)
   /\ EmptyBefore(pre, dest))
  => /\ err = ""
     /\ scanErr = ""
     /\ Flat(desc) = Flat(given)

\* C7 witness: a description five levels deep has come back from the scan
C7_Witness ==
  /\ ~Running
  /\ runs >= 1
  /\ origin.scanned
  /\ origin.atRuns = runs
  /\ origin.path = dest
  /\ origin.options = DefaultOptions
  /\ EmptyBefore(pre, dest)
  /\ given = Chain(MaxDepth, 1, One("f", Txt("x")))
  /\ <<<<"a", "a", "a", "a", "f">>, Txt("x")>> \in Flat(desc)
  /\ <<<<"a", "a", "a", "b">>, Txt("y")>> \in Flat(desc)

\* C8: whatever followLinks is, a scan (nothing ignored, no extras) raises
\* no error, has for every symbolic link below the scanned directory a
\* marker with the link's stored target, and has no entry for anything that
\* is not below the scanned directory itself.
C8_LinksAreMarkersEitherWay ==
  LET root == Phys(fs, origin.path, TRUE)
  IN (/\ origin.scanned
      /\ origin.wasDir
      /\ origin.atRuns = runs
      /\ origin.options.ignore = {}
      /\ origin.options.extras = NoFiles)
     => /\ scanErr = ""
        /\ \A q \in Below(fs, root.p) :
             fs[q].k = "symlink" =>
               \E x \in Flat(desc) :
                 x[1] = RelTo(root.p, q) /\ isSymlink(x[2]) /\ x[2].path = fs[q].target
        /\ \A x \in Flat(desc) : (root.p \o x[1]) \in DOMAIN fs

\* C9: when the loop iteration of a metadata-wrapped nested directory whose
\* mode lacks the write permission has created the directory and is about
\* to materialize its first child, the directory has the requested mode and
\* the next iteration fails with EACCES without creating anything.
C9_ModeAppliedAtCreation ==
  LET c == last.content
      cur == [fs |-> fs, desc |-> desc, stack |-> stack, err |-> err, last |-> last]
  IN (/\ Running
      /\ last # NoLast
      /\ last.fresh
      /\ hasMetadata(c)
      /\ c.content.t = "dir"
      /\ c.meta.mode # NoMode
      /\ ~HasW(c.meta.mode)
      /\ stack[Len(stack)].at = last.at
      /\ stack[Len(stack)].idx = 1)
     => LET w == Phys(fs, last.filename, TRUE)
            nx == CreateFileTreeStep(cur, isSync)
        IN /\ w.st = "found"
           /\ fs[w.p].k = "dir"
           /\ fs[w.p].mode = c.meta.mode
           /\ nx.err = "EACCES"
           /\ nx.fs = fs

C11_VariantsAgree ==
  ~Running =>
    /\ \A d \in Dests :
         LET blocking == createFileTree(fs, d, desc, TRUE)
             awaited == createFileTree(fs, d, desc, FALSE)
         IN blocking.fs = awaited.fs /\ blocking.err = awaited.err
    /\ \A path \in ScanPaths, options \in ScanOptions :
         fromFileSystem(fs, path, options, TRUE) = fromFileSystem(fs, path, options, FALSE)

\* C20: the fixture root.  After testdir or testdirSync was called with the
\* dirname option d, the root it materializes into is path.resolve(d); without
\* the option it is a directory testdirs-<uuid> directly inside the real
\* temporary directory.  The root exists unless its creation has failed.
C20_FixtureRoot ==
  (call.op = "testdir") =>
    /\ IF call.dirname # NoDirname
       THEN dest = resolve1(call.dirname)
       ELSE /\ dirname(dest) = Abs(Phys(BaseFS, tmpdir, TRUE).p)
            /\ basename(dest) \in {FixtureName(n) : n \in 0..MaxRuns}
    /\ (Running \/ err = "") => IsDir(pre, dest)

\* C13: isLink, isSymlink and hasMetadata answer true for the values their
\* own constructor built and false for every other value the caller wrote:
\* {}, null, undefined, arrays, strings, numbers, the values of the other
\* constructors, objects with string keys such as {content: "x"} or
\* {path: "x"}; each of them answers for every value.
C13_ClassifiersKnowTheirOwn ==
  (classified.pc = "classified") =>
    /\ classified.verdict.isLink = (classified.by = "link")
    /\ classified.verdict.isSymlink = (classified.by = "symlink")
    /\ classified.verdict.hasMetadata = (classified.by = "metadata")

\* C13 witness: the object {path: "x"} has been classified and is no marker
C13_Witness ==
  /\ classified.pc = "classified"
  /\ classified.by = "object"
  /\ classified.value = One("path", Txt("x"))
  /\ ~classified.verdict.isSymlink
  /\ ~classified.verdict.isLink
  /\ ~classified.verdict.hasMetadata

\* C14 as stated: isPrimitive(v) is true if and only if v is a text string,
\* a number, a boolean, null, undefined or a byte sequence.
C14_PrimitiveAsStated ==
  (classified.pc = "classified") =>
    classified.verdict.isPrimitive
      = (classified.by \in {"string", "number", "boolean", "null", "undefined", "Uint8Array"})

\* C14: isPrimitive(v) is true if and only if v is a text string, a number,
\* a boolean, null, undefined, a byte sequence, a bigint or a symbol.
C14_PrimitiveKinds ==
  (classified.pc = "classified") =>
    classified.verdict.isPrimitive
      = (classified.by \in {"string", "number", "boolean", "null", "undefined", "Uint8Array",
                            "bigint", "symbol"})

\* C14 witness: a bigint has been classified as primitive
C14_Witness ==
  /\ classified.pc = "classified"
  /\ classified.by = "bigint"
  /\ classified.verdict.isPrimitive

\* the places of the entries of a description, depth first: an entry, then
\* the entries below it, then its next sibling
RECURSIVE C12_DepthFirst(_, _, _)
C12_DepthFirst(files, at, i) ==
  IF i > Len(files.entries) THEN <<>>
  ELSE LET inner == Unwrap(files.entries[i].content)
       IN <<Append(at, i)>>
          \o (IF inner.t = "dir" THEN C12_DepthFirst(inner, Append(at, i), 1) ELSE <<>>)
          \o C12_DepthFirst(files, at, i + 1)

\* the names of every level are in the order of the directory listing
RECURSIVE C12_InListingOrder(_)
C12_InListingOrder(files) ==
  LET Pos(name) == CHOOSE k \in 1..Len(NameOrder) : NameOrder[k] = name.segs[1]
  IN \A i \in 1..Len(files.entries) :
       /\ \A j \in 1..Len(files.entries) :
            i < j => Pos(files.entries[i].name) < Pos(files.entries[j].name)
       /\ files.entries[i].content.t = "dir" => C12_InListingOrder(files.entries[i].content)

\* C12: sequential depth-first execution.  Every loop iteration of a
\* materialization works on the entry that follows, depth first, the entry
\* of the iteration before it: an entry's descendants are all done before
\* its next sibling is begun, and the materialization ends without error
\* only after the last entry.  A scan assigns the entries of every level in
\* the order of the listing.
C12_SequentialDepthFirst ==
  [][ /\ (Running /\ runs' = runs /\ scans' = scans) =>
           LET order == C12_DepthFirst(given, <<>>, 1)
               done == IF last = NoLast THEN 0
                       ELSE CHOOSE k \in 1..Len(order) : order[k] = last.at
           IN /\ done < Len(order)
              /\ last'.at = order[done + 1]
              /\ (stack' = <<>> /\ err' = "") => done + 1 = Len(order)
      /\ (scans' = scans + 1 /\ scanErr' = "" /\ origin'.options.extras = NoFiles) =>
           C12_InListingOrder(desc')
    ]_vars

\* C12 witness: d/e/f is done, which ended the loop of d/e; the loop of d
\* is at its second entry g, and m of the outermost loop is still to come
C12_Witness ==
  /\ Running
  /\ given = Uncles
  /\ last.at = <<1, 1, 1>>
  /\ Len(stack) = 2
  /\ stack[2].at = <<1>> /\ stack[2].idx = 2
  /\ stack[1].at = <<>> /\ stack[1].idx = 2

\* the top level of a description: names with their contents
C15_Top(files) == {<<files.entries[i].name, files.entries[i].content>> : i \in 1..Len(files.entries)}

\* C15: when a directory has been scanned with extras E, the top level of
\* the result has every entry of E with the caller's content, every entry
\* the scan without extras returns under a name that is not in E, with the
\* content (nested levels included) that scan returns, each name once, and
\* nothing else.
C15_ExtrasOverlay ==
  (/\ origin.scanned
   /\ origin.atRuns = runs
   /\ origin.wasDir
   /\ scanErr = ""
   /\ origin.options.extras # NoFiles)
  => LET E == C15_Top(origin.options.extras)
         plain == fromFileSystem(fs, origin.path,
                                 [origin.options EXCEPT !.extras = NoFiles], isSync)
     IN /\ plain.err = ""
        /\ C15_Top(desc) = E \cup {x \in C15_Top(plain.files) : \A y \in E : y[1] # x[1]}
        /\ Cardinality({x[1] : x \in C15_Top(desc)}) = Len(desc.entries)

\* C15 witness: the scanned directory has a file "a" and a link "l"; the
\* result has the caller's "a" and "p" and the scanned "l"
C15_Witness ==
  /\ origin.scanned
  /\ origin.atRuns = runs
  /\ origin.wasDir
  /\ scanErr = ""
  /\ origin.options.extras = Two("a", Txt("x"), "p", One("f", Txt("y")))
  /\ Phys(fs, resolve(origin.path, N("a")), TRUE).st = "found"
  /\ C15_Top(desc) = { <<N("a"), Txt("x")>>, <<N("p"), One("f", Txt("y"))>>,
                       <<N("l"), symlink(Abs(<<"w", "o">>))>> }

\* a name of the ignore list is on the way
C16_Ignored(segs) == \E i \in 1..Len(segs) : segs[i] \in origin.options.ignore

\* a node whose listing or content the process may not read
C16_Unreadable(node) ==
  \/ node.k = "file" /\ ~HasR(node.mode)
  \/ node.k = "dir" /\ ~(HasR(node.mode) /\ HasX(node.mode))

\* C16: after the scan of a directory, whatever the ignore list: no name of
\* the list is at any level of what was scanned; every node below the
\* scanned directory that has no ignored name on its way is in the result
\* (unless an entry of extras took the place of its top-level ancestor); and
\* what cannot be read below an ignored name does not make the scan fail,
\* because nothing there is listed or read.
C16_IgnoreAtEveryLevel ==
  LET root == Phys(fs, origin.path, TRUE)
      E == {origin.options.extras.entries[i].name.segs[1] :
              i \in 1..Len(origin.options.extras.entries)}
  IN (origin.scanned /\ origin.atRuns = runs /\ origin.wasDir) =>
       /\ (\A q \in Below(fs, root.p) \cup {root.p} :
             C16_Unreadable(fs[q]) => C16_Ignored(RelTo(root.p, q)))
          => scanErr # "EACCES"
       /\ (scanErr = "") =>
            /\ \A x \in Flat(desc) : x[1][1] \notin E => ~C16_Ignored(x[1])
            /\ \A q \in Below(fs, root.p) :
                 (~C16_Ignored(RelTo(root.p, q)) /\ RelTo(root.p, q)[1] \notin E) =>
                   \E x \in Flat(desc) : x[1] = RelTo(root.p, q)

\* C16 witness: a directory with an unreadable directory e beside a file f
\* has been scanned with e ignored, and the result has f and not e
C16_Witness ==
  LET root == Phys(fs, origin.path, TRUE)
  IN /\ origin.scanned
     /\ origin.atRuns = runs
     /\ origin.wasDir
     /\ "e" \in origin.options.ignore
     /\ scanErr = ""
     /\ Append(root.p, "e") \in DOMAIN fs
     /\ C16_Unreadable(fs[Append(root.p, "e")])
     /\ \E x \in Flat(desc) : x[1] = <<"f">>
     /\ \A x \in Flat(desc) : x[1] # <<"e">>

\* the lines below the first for the directory dir, from the filesystem
RECURSIVE C17_Lines(_, _, _)
C17_Lines(f, dir, prefix) ==
  LET names == SelectSeq(LocaleOrder, LAMBDA n : Append(dir, n) \in DOMAIN f)
      sorted == SelectSeq(names, LAMBDA n : f[Append(dir, n)].k = "dir")
                \o SelectSeq(names, LAMBDA n : f[Append(dir, n)].k # "dir")
      Line(i) ==
        LET n == sorted[i]
            isLast == i = Len(sorted)
            isDir == f[Append(dir, n)].k = "dir"
        IN <<prefix \o (IF isLast THEN "+-- " ELSE "|-- ") \o n \o (IF isDir THEN "/" ELSE "")>>
           \o (IF isDir
               THEN C17_Lines(f, Append(dir, n), prefix \o (IF isLast THEN "    " ELSE "|   "))
               ELSE <<>>)
      From[i \in 1..(Len(sorted) + 1)] ==
        IF i > Len(sorted) THEN <<>> ELSE Line(i) \o From[i + 1]
  IN From[1]

\* C17: captureSnapshot(dir) of an existing directory that can be listed
\* returns the line "<basename of dir>/" followed by one line for every
\* entry below dir, each beneath its real parent, directories before files
\* and each group by name, with the prefixes and connectors of a tree view,
\* whatever the order of the listing.
C17_SnapshotIsTheTree ==
  LET root == Phys(fs, ParsePath(snapshot.path), TRUE)
  IN (/\ snapshot.pc = "returned"
      /\ snapshot.atRuns = runs
      /\ root.st = "found"
      /\ fs[root.p].k = "dir") =>
       /\ snapshot.err = ""
       /\ snapshot.text
            = JoinText(<<basenameText(snapshot.path) \o "/">> \o C17_Lines(fs, root.p, ""), "\n")

\* C18: a call of a custom testdir function that has resolved has run its
\* steps in the order options validation, dirname, before hook (when there
\* is one), factory function, after hook (when there is one), each called
\* once and each returned before the next was called, and has resolved with
\* what the factory function returned; while a step is awaited the call is
\* pending.
C18_HookOrder ==
  /\ (custom.pc \notin {"idle", "settled"}) => custom.outcome = Pending
  /\ (custom.pc = "settled" /\ custom.outcome.status = "resolved") =>
       /\ parseOptions(custom.rawOptions, custom.opts.optionsSchema).threw = ""
       /\ custom.log
            = <<"call dirname", "dirname returned">>
              \o (IF custom.opts.before THEN <<"call before", "before returned">> ELSE <<>>)
              \o <<"call factoryFn", "factoryFn returned">>
              \o (IF custom.opts.after THEN <<"call after", "after returned">> ELSE <<>>)
       /\ custom.outcome.value
            = FactoryResult(parseOptions(custom.rawOptions, custom.opts.optionsSchema).value,
                            FixtureDirname, custom.files)

\* C18 witness: a call with both hooks has resolved
C18_Witness ==
  /\ custom.pc = "settled"
  /\ custom.outcome.status = "resolved"
  /\ custom.opts.before
  /\ custom.opts.after
  /\ Len(custom.log) = 8

\* C19: a call whose options do not satisfy the schema is rejected with a
\* message that starts with "Options validation failed", and neither
\* dirname nor a hook nor the factory function has been called.
C19_ValidationFailure ==
  (/\ custom.pc # "idle"
   /\ SchemaParse(custom.opts.optionsSchema,
                  IF custom.rawOptions = Undefined THEN Obj(<<>>) ELSE custom.rawOptions).issues
        # <<>>)
  => /\ custom.pc = "settled"
     /\ custom.outcome.status = "rejected"
     /\ Slice(custom.outcome.message, 0, 25) = "Options validation failed"
     /\ custom.log = <<>>

\* C19 witness: { timeout: "invalid" } has been rejected for the timeout
C19_Witness ==
  /\ custom.pc = "settled"
  /\ custom.rawOptions = Obj([timeout |-> Str(<<"i", "n", "v", "a", "l", "i", "d">>)])
  /\ custom.outcome = Rejected("Options validation failed: timeout: expected number")
  /\ custom.log = <<>>

\* C21: release of a fixture.  Once remove() has been called on the result
\* of testdir / testdirSync, however often and whether or not another
\* process had deleted the directory before, the call has completed without
\* error and nothing is at the fixture path.
C21_ReleaseLeavesNothing ==
  (call.op = "testdir" /\ call.removes >= 1) =>
    /\ call.removeErr = ""
    /\ Phys(fs, dest, FALSE).st # "found"

\* C22: the loop iteration of an entry whose name has separators, whatever
\* its content, leaves the directory that is to contain the entry in place
\* whenever the intermediate directories could be made (or were there).
C22_IntermediateDirectories ==
  [][ (Running /\ runs' = runs /\ scans' = scans) =>
        LET top == stack[Len(stack)]
            e == FilesAt(desc, top.at).entries[top.idx]
            filename == resolve(top.filePath, e.name)
        IN (Len(e.name.segs) > 1 /\ MkdirP(fs, dirname(filename), Oct(7, 7, 7)).err = "")
           => IsDir(fs', dirname(filename))
    ]_vars

\* the description with its entries in the order perm
Permuted(files, perm) ==
  [files EXCEPT !.entries = [i \in 1..Len(files.entries) |-> files.entries[perm[i]]]]

\* the names below root that are one file (hard links of each other)
SameFile(f, root) ==
  LET files == {x \in Below(f, root) : f[x].k = "file"}
  IN {<<RelTo(root, pr[1]), RelTo(root, pr[2])>> :
        pr \in {x \in files \X files : f[x[1]].ino = f[x[2]].ino}}

\* C23: entries are independent.  When a materialization into a fresh
\* destination is over, the same description with its entries in any other
\* order, materialized from the same starting filesystem, ends the same way
\* (success or failure) and, on success, with the same tree at the destination.
C23_OrderIndependent ==
  (runs >= 1 /\ ~Running /\ EmptyBefore(pre, dest)) =>
    \A perm \in Permutations(1..Len(given.entries)) :
      LET other == createFileTree(pre, dest, Permuted(given, perm), isSync)
          root == Phys(fs, dest, TRUE).p
      IN /\ (other.err = "") = (err = "")
         /\ err = "" => /\ Shape(other.fs, root) = Shape(fs, root)
                        /\ SameFile(other.fs, root) = SameFile(fs, root)

\* C24: the target written for a symbolic link marker of a description with
\* provenance.  The loop iteration that creates the link writes, as its
\* target, the path from the directory of the new link to the marker's
\* recorded path resolved against the provenance directory.
C24_RebasedToOriginalTarget ==
  [][ (Running /\ runs' = runs /\ scans' = scans) =>
        LET top == stack[Len(stack)]
            files == FilesAt(desc, top.at)
            e == files.entries[top.idx]
            data == Unwrap(e.content)
            filename == resolve(top.filePath, e.name)
            original == resolve1(normalize(files.prov.path))
            written == Phys(fs', filename, FALSE)
        IN (isSymlink(data) /\ files.prov.has /\ err' = "")
           => /\ written.st = "found"
              /\ fs'[written.p].k = "symlink"
              /\ fs'[written.p].target
                   = relative(dirname(filename), resolve(original, data.path))
    ]_vars

\* C25: the description is left as given.  No loop iteration of a
\* materialization, successful or failing, changes any entry of the
\* description it was called with, the paths of its markers included.
C25_DescriptionUnchanged ==
  [][ (Running /\ runs' = runs /\ scans' = scans) => desc' = desc ]_vars

\* C26: a wrapper around a wrapper.  The loop iteration of an entry whose
\* metadata wrapper wraps another metadata wrapper fails and creates nothing.
C26_DoubleWrapFails ==
  [][ (Running /\ runs' = runs /\ scans' = scans) =>
        LET top == stack[Len(stack)]
            e == FilesAt(desc, top.at).entries[top.idx]
        IN (hasMetadata(e.content) /\ hasMetadata(e.content.content))
           => /\ err' # ""
              /\ fs' = fs
    ]_vars

\* C27: arrays and functions are no directories.  The loop iteration of an
\* entry whose content is an array or a function makes no directory at the
\* entry's path and starts no loop over the value's keys.
C27_NoDirectoryFromArrayOrFunction ==
  [][ (Running /\ runs' = runs /\ scans' = scans) =>
        LET top == stack[Len(stack)]
            e == FilesAt(desc, top.at).entries[top.idx]
            data == Unwrap(e.content)
            filename == resolve(top.filePath, e.name)
        IN (data.t \in {"array", "function"} /\ ~IsDir(fs, filename))
           => /\ ~IsDir(fs', filename)
              /\ \A i \in 1..Len(stack') : stack'[i].at # Append(top.at, top.idx)
    ]_vars

\* C28: the type of a symbolic link.  The loop iteration that calls
\* fs.symlink passes "junction" exactly when the target it passes, resolved
\* against the directory of the link, is a directory that exists, and "file"
\* otherwise.
C28_LinkTypeFollowsTarget ==
  [][ (Running /\ runs' = runs /\ scans' = scans /\ last'.type # "") =>
        LET top == stack[Len(stack)]
            files == FilesAt(desc, top.at)
            e == files.entries[top.idx]
            filename == resolve(top.filePath, e.name)
            passed == SymlinkArgument(IF files.prov.has
                                      THEN Rebase(filename, files.prov.path, e.name)
                                      ELSE Unwrap(e.content).path, isSync)
        IN (last'.type = "junction") <=> IsDir(fs, resolve(dirname(filename), passed))
    ]_vars

\* how often a step occurs in the log of a call
Times(log, step) == Cardinality({i \in 1..Len(log) : log[i] = step})

\* C29: the after hook of a custom testdir function.  In a call that has an
\* after hook, once the factory function has settled (returned or thrown)
\* the after hook has been called exactly once, with the parsed options, and
\* it is never called more than once; when the factory function has thrown
\* and the after hook has returned, the call is rejected with the factory
\* function's error; when dirname or the before hook has thrown, neither the
\* factory function nor the after hook has been called.
C29_AfterHookAlways ==
  (custom.pc # "idle" /\ custom.log # <<>>) =>
    /\ Times(custom.log, "call after") <= 1
    /\ (/\ custom.opts.after
        /\ Times(custom.log, "factoryFn returned") + Times(custom.log, "factoryFn threw") = 1)
       => /\ Times(custom.log, "call after") = 1
          /\ custom.afterArgument
               = parseOptions(custom.rawOptions, custom.opts.optionsSchema).value
    /\ (Times(custom.log, "factoryFn threw") = 1 /\ Times(custom.log, "after returned") = 1)
       => /\ custom.pc = "settled"
          /\ custom.outcome = Rejected("factoryFn")
    /\ (Times(custom.log, "dirname threw") + Times(custom.log, "before threw") >= 1)
       => /\ custom.pc = "settled"
          /\ Times(custom.log, "call factoryFn") = 0
          /\ Times(custom.log, "call after") = 0

\* C29 witness: with both hooks, the factory function has thrown after the
\* before hook returned, the after hook has been called and has returned,
\* and the call is rejected with the factory function's error
C29_Witness ==
  /\ custom.pc = "settled"
  /\ custom.opts.before
  /\ custom.opts.after
  /\ custom.log = <<"call dirname", "dirname returned", "call before", "before returned",
                    "call factoryFn", "factoryFn threw", "call after", "after returned">>
  /\ custom.afterArgument # Undefined
  /\ custom.outcome = Rejected("factoryFn")

\* a description of primitives and nested descriptions only
RECURSIVE PlainTree(_)
PlainTree(files) ==
  \A i \in 1..Len(files.entries) :
    LET c == files.entries[i].content
    IN \/ isPrimitive(c)
       \/ c.t = "dir" /\ PlainTree(c)

\* the physical paths of the entries of a description materialized at d
Described(f, d, files) ==
  {Phys(f, [abs |-> d.abs, segs |-> d.segs \o x[1]], TRUE).p : x \in Flat(files)}

\* C30: re-running is idempotent for plain trees.  When the materialization
\* of a description of primitives and nested directories has succeeded,
\* materializing the same description into the same destination again
\* succeeds and leaves the filesystem as it is; and the run has removed no
\* node and changed none but those at the described paths.
C30_RerunIdempotent ==
  (runs >= 1 /\ ~Running /\ err = "" /\ PlainTree(given)) =>
    /\ LET again == createFileTree(fs, dest, given, isSync)
       IN /\ again.err = ""
          /\ again.fs = fs
    /\ \A q \in DOMAIN pre :
         /\ q \in DOMAIN fs
         /\ fs[q] # pre[q] => q \in Described(fs, dest, given)

\* C30 witness: a nested description with a file in a directory has been
\* materialized into the same destination a second time, over what the first
\* run made, and the second run as a whole changed nothing
C30_Witness ==
  /\ runs = 2
  /\ ~Running
  /\ err = ""
  /\ call.op = "createFileTree"
  /\ PlainTree(given)
  /\ \E x \in Flat(given) : Len(x[1]) >= 2
  /\ Described(pre, dest, given) \subseteq DOMAIN pre
  /\ fs = pre

====
